---- MODULE Spec2Model ----
(***************************************************************************)
(* A model of hashtool.py: the glob filter, the checksum-file codec, the   *)
(* manifest placement of the generator and the three directory crawlers.   *)
(*                                                                         *)
(* Strings of the program are sequences of one-character strings, so that  *)
(* formatting, parsing and glob matching are computed character by         *)
(* character as the code computes them.  The platform modelled is POSIX    *)
(* (os.linesep = "\n", os.sep = "/", os.rename replaces an existing file). *)
(***************************************************************************)
EXTENDS Integers, Sequences, FiniteSets, TLC

VARIABLES
    fs,       \* the listing of the root directory: a sequence of entries
    obj,      \* the object under test: the fields its constructor set
    pc,       \* where the run stands
    console,  \* what the run reported, in order
    exc,      \* the exception that ended the last call, or "none"
    args,     \* the arguments of the last call
    ret       \* the value the last call returned

vars == <<fs, obj, pc, console, exc, args, ret>>

(***************************************************************************)
(* Bounds of the model.                                                    *)
(***************************************************************************)
MaxGlobs == 2      \* globs in an include or exclude list
MaxEntries == 2    \* entries of a hashinfo sequence handed to the codec
MaxHandlers == 2   \* callback handlers registered with a game
MaxPlays == 2      \* calls of play() on one game

(***************************************************************************)
(* Character strings.                                                      *)
(***************************************************************************)
RECURSIVE Flatten(_)
Flatten(ss) == IF ss = <<>> THEN <<>> ELSE Head(ss) \o Flatten(Tail(ss))

\* str.startswith
StartsWith(s, p) == Len(s) >= Len(p) /\ SubSeq(s, 1, Len(p)) = p

\* str.find, 1-based; 0 when sub does not occur
Find(s, sub) ==
    LET hits == {i \in 1..(Len(s) - Len(sub) + 1) : SubSeq(s, i, i + Len(sub) - 1) = sub}
    IN  IF hits = {} THEN 0 ELSE CHOOSE i \in hits : \A j \in hits : i <= j

\* str.partition: <<before, separator, after>>, or <<s, "", "">> without sep
Partition(s, sep) ==
    LET i == Find(s, sep)
    IN  IF i = 0 THEN <<s, <<>>, <<>>>>
        ELSE <<SubSeq(s, 1, i - 1), sep, SubSeq(s, i + Len(sep), Len(s))>>

\* the characters str.strip() removes and str.splitlines/readline break on
Whitespace == {" ", "\t", "\n", "\r"}

\* str.strip()
Strip(s) ==
    LET keep == {i \in 1..Len(s) : s[i] \notin Whitespace}
    IN  IF keep = {} THEN <<>>
        ELSE SubSeq(s, CHOOSE i \in keep : \A j \in keep : i <= j,
                       CHOOSE i \in keep : \A j \in keep : i >= j)

\* the lines iterating a text-mode file yields (universal newlines: "\r\n",
\* "\r" and "\n" all end a line); terminators are dropped, the caller strips
RECURSIVE FileLines(_)
FileLines(text) ==
    LET ends == {i \in 1..Len(text) : text[i] \in {"\n", "\r"}}
    IN  IF text = <<>> THEN <<>>
        ELSE IF ends = {} THEN <<text>>
        ELSE LET i == CHOOSE k \in ends : \A j \in ends : k <= j
                 n == IF text[i] = "\r" /\ i < Len(text) /\ text[i + 1] = "\n"
                      THEN i + 1 ELSE i
             IN  <<SubSeq(text, 1, i - 1)>> \o FileLines(SubSeq(text, n + 1, Len(text)))

\* str.lower() on the characters the model uses
LowerChar(c) ==
    CASE c = "A" -> "a" [] c = "B" -> "b" [] c = "C" -> "c" [] c = "D" -> "d"
      [] c = "E" -> "e" [] c = "F" -> "f" [] c = "M" -> "m" [] OTHER -> c

Lower(s) == [i \in 1..Len(s) |-> LowerChar(s[i])]

(***************************************************************************)
(* fnmatch.fnmatch(name, pat) on POSIX: "*" matches any run of characters, *)
(* "?" any one character, every other character itself.  The globs of the *)
(* model hold no "[", so character classes are not modelled.               *)
(***************************************************************************)
RECURSIVE fnmatch(_, _)
fnmatch(name, pat) ==
    IF pat = <<>> THEN name = <<>>
    ELSE IF Head(pat) = "*"
         THEN fnmatch(name, Tail(pat)) \/ (name # <<>> /\ fnmatch(Tail(name), pat))
    ELSE IF Head(pat) = "?"
         THEN name # <<>> /\ fnmatch(Tail(name), Tail(pat))
    ELSE name # <<>> /\ Head(name) = Head(pat) /\ fnmatch(Tail(name), Tail(pat))

(***************************************************************************)
(* GlobFilter.__call__: the exclude loop, the empty-include test, the      *)
(* include loop, each returning at its first hit.                          *)
(***************************************************************************)
RECURSIVE AnyGlob(_, _)
AnyGlob(globs, string) ==
    IF globs = <<>> THEN FALSE
    ELSE IF fnmatch(string, Head(globs)) THEN TRUE
    ELSE AnyGlob(Tail(globs), string)

\* a filter that asks the include list first
GlobFilter_call_IncludeFirst(include, exclude, string) ==
    IF AnyGlob(include, string) THEN TRUE
    ELSE IF AnyGlob(exclude, string) THEN FALSE
    ELSE include = <<>>

\* a filter without the match-all fallthrough of an empty include list
GlobFilter_call_NoFallthrough(include, exclude, string) ==
    IF AnyGlob(exclude, string) THEN FALSE
    ELSE AnyGlob(include, string)

GlobFilter_call(include, exclude, string) ==
    IF AnyGlob(exclude, string) THEN FALSE
    ELSE IF include = <<>> THEN TRUE
    ELSE IF AnyGlob(include, string) THEN TRUE
    ELSE FALSE

\* GlobFilter.filter / filter(globfilter, iterable): the names that pass, in order
RECURSIVE GlobFilter_filter(_, _, _)
GlobFilter_filter(include, exclude, names) ==
    IF names = <<>> THEN <<>>
    ELSE (IF GlobFilter_call(include, exclude, Head(names)) THEN <<Head(names)>> ELSE <<>>)
         \o GlobFilter_filter(include, exclude, Tail(names))

(***************************************************************************)
(* Sequences of bounded length over a set.                                 *)
(***************************************************************************)
SeqUpTo(S, n) == UNION {[1..k -> S] : k \in 0..n}

\* the element of a one-element set; { e(x) : x \in {v} } names the value v
Only(S) == CHOOSE x \in S : TRUE

(***************************************************************************)
(* Paths (os.path on POSIX).                                               *)
(***************************************************************************)
Sep == <<"/">>

\* os.path.join(a, b)
path_join(a, b) ==
    IF StartsWith(b, Sep) THEN b
    ELSE IF a = <<>> \/ a[Len(a)] = "/" THEN a \o b
    ELSE a \o Sep \o b

\* the components of a path: the pieces between the separators
RECURSIVE Split(_)
Split(path) ==
    LET i == Find(path, Sep)
    IN  IF i = 0 THEN <<path>>
        ELSE <<SubSeq(path, 1, i - 1)>> \o Split(SubSeq(path, i + 1, Len(path)))

\* os.path.basename(p): what follows the last separator
path_basename(p) == LET c == Split(p) IN c[Len(c)]

\* os.path.dirname(p): what precedes the last separator
path_dirname(p) == SubSeq(p, 1, Len(p) - Len(path_basename(p)) - 1)

\* the components the kernel walks: empty ones and "." are passed over
Walked(path) == SelectSeq(Split(path), LAMBDA c : c # <<>> /\ c # <<".">>)

RECURSIVE JoinAll(_)
JoinAll(comps) ==
    IF comps = <<>> THEN <<>>
    ELSE IF Len(comps) = 1 THEN comps[1]
    ELSE comps[1] \o Sep \o JoinAll(Tail(comps))

\* os.path.relpath(path, start) for a path below start
path_relpath(path, start) ==
    LET p == Walked(path)
        s == Walked(start)
    IN  IF Len(p) > Len(s) /\ SubSeq(p, 1, Len(s)) = s
        THEN JoinAll(SubSeq(p, Len(s) + 1, Len(p)))
        ELSE <<".">>

(***************************************************************************)
(* The file tree.  A directory is its listing: the sequence of its entries *)
(* in the order the operating system lists them.  An entry is a file with  *)
(* its text, or a directory with its own listing.  The tree modelled is    *)
(* the directory RootName of the working directory; every other path does  *)
(* not exist.                                                              *)
(***************************************************************************)
RootName == <<"r">>

NoEntry == [name |-> <<>>, kind |-> "none", data |-> <<>>]
File(name, text) == [name |-> name, kind |-> "file", data |-> text]
Dir(name, listing) == [name |-> name, kind |-> "dir", data |-> listing]
\* a symbolic link whose target does not exist
Link(name) == [name |-> name, kind |-> "link", data |-> <<>>]

\* the position of a name in a listing, 0 when absent
Index(listing, name) ==
    LET hits == {i \in DOMAIN listing : listing[i].name = name}
    IN  IF hits = {} THEN 0 ELSE CHOOSE i \in hits : TRUE

RECURSIVE Descend(_, _)
Descend(entry, comps) ==
    IF comps = <<>> THEN entry
    ELSE IF entry.kind # "dir" THEN NoEntry
    ELSE LET i == Index(entry.data, Head(comps))
         IN  IF i = 0 THEN NoEntry ELSE Descend(entry.data[i], Tail(comps))

\* the entry a path names, NoEntry when there is none
Resolve(tree, path) ==
    LET comps == Walked(path)
    IN  IF StartsWith(path, Sep) \/ comps = <<>> \/ Head(comps) # RootName THEN NoEntry
        ELSE Descend(Dir(RootName, tree), Tail(comps))

\* os.path.isfile, os.path.isdir, os.path.exists
path_isfile(tree, path) == Resolve(tree, path).kind = "file"
path_isdir(tree, path) == Resolve(tree, path).kind = "dir"
path_exists(tree, path) == Resolve(tree, path).kind \notin {"none", "link"}

\* os.listdir(directory): the names, in listing order
listdir(tree, directory) ==
    LET d == Resolve(tree, directory) IN [i \in DOMAIN d.data |-> d.data[i].name]

\* the tree with the listing of the directory at comps (below the root) replaced
RECURSIVE SetDir(_, _, _)
SetDir(listing, comps, new) ==
    IF comps = <<>> THEN new
    ELSE LET i == Index(listing, Head(comps))
         IN  [listing EXCEPT ![i] = Dir(listing[i].name, SetDir(listing[i].data, Tail(comps), new))]

\* a listing without a name; with an entry put in place of its name or appended
Without(listing, name) == SelectSeq(listing, LAMBDA e : e.name # name)

With(listing, entry) ==
    LET i == Index(listing, entry.name)
    IN  IF i = 0 THEN Append(listing, entry) ELSE [listing EXCEPT ![i] = entry]

\* open(path, 'w') and the writes up to close: the file holds exactly text
FsWrite(tree, path, text) ==
    LET dir == path_dirname(path)
        name == path_basename(path)
    IN  IF ~path_isdir(tree, dir) \/ name = <<>>
        THEN [fs |-> tree, exc |-> "FileNotFoundError"]
        ELSE IF path_isdir(tree, path)
        THEN [fs |-> tree, exc |-> "IsADirectoryError"]
        ELSE [fs |-> SetDir(tree, Tail(Walked(dir)),
                            With(Resolve(tree, dir).data, File(name, text))),
              exc |-> "none"]

\* os.rename(src, dst): an existing file at dst is replaced, a directory at
\* dst is not (unless both are directories and dst is empty)
FsRename(tree, src, dst) ==
    LET s == Resolve(tree, src)
        d == Resolve(tree, dst)
        moved == [s EXCEPT !.name = path_basename(dst)]
        removed == SetDir(tree, Tail(Walked(path_dirname(src))),
                          Without(Resolve(tree, path_dirname(src)).data, s.name))
    IN  IF s.kind = "none" \/ ~path_isdir(tree, path_dirname(dst))
        THEN [fs |-> tree, exc |-> "FileNotFoundError"]
        ELSE IF s.kind = "file" /\ d.kind = "dir"
        THEN [fs |-> tree, exc |-> "IsADirectoryError"]
        ELSE IF s.kind = "dir" /\ d.kind = "file"
        THEN [fs |-> tree, exc |-> "NotADirectoryError"]
        ELSE IF s.kind = "dir" /\ d.kind = "dir" /\ d.data # <<>>
        THEN [fs |-> tree, exc |-> "OSError"]
        ELSE [fs |-> SetDir(removed, Tail(Walked(path_dirname(dst))),
                            With(Resolve(removed, path_dirname(dst)).data, moved)),
              exc |-> "none"]

(***************************************************************************)
(* AbstractDirectoryCrawler._write_checksum_file: the comment line with    *)
(* the local time, then one line "<hash> *<path>" per entry, each ended by *)
(* os.linesep.  An entry of hashinfo is <<filepath, hash>>.                *)
(***************************************************************************)
Linesep == <<"\n">>

\* time.strftime("%Y-%m-%d %H:%M:%S") at two moments
Timestamps ==
    { <<"2","0","2","4","-","0","1","-","1","5"," ","1","0",":","3","0",":","0","0">>,
      <<"2","0","2","4","-","0","1","-","1","5"," ","1","0",":","3","0",":","0","1">> }

CommentLine(ts) ==
    <<"#"," ","G","e","n","e","r","a","t","e","d"," ","o","n"," ">> \o ts \o Linesep

RECURSIVE EntryLines(_)
EntryLines(hashinfo) ==
    IF hashinfo = <<>> THEN <<>>
    ELSE Head(hashinfo)[2] \o <<" ", "*">> \o Head(hashinfo)[1] \o Linesep
         \o EntryLines(Tail(hashinfo))

\* a writer that leaves the "*" marker out
ChecksumText_NoMarker(ts, hashinfo) ==
    CommentLine(ts)
    \o Flatten([i \in DOMAIN hashinfo |->
                    hashinfo[i][2] \o <<" ">> \o hashinfo[i][1] \o Linesep])

\* the text _write_checksum_file writes
ChecksumText(ts, hashinfo) == CommentLine(ts) \o EntryLines(hashinfo)

write_checksum_file(tree, filename, hashinfo, ts) ==
    FsWrite(tree, filename, ChecksumText(ts, hashinfo))

\* a reader that takes comment lines for entries
ParseLine_NoCommentSkip(raw) ==
    LET line == Strip(raw)
        p1 == Partition(line, <<" ", "*">>)
        p2 == IF p1[1] = <<>> THEN Partition(line, <<" ">>) ELSE p1
    IN  IF p2[1] # <<>> /\ p2[3] # <<>> THEN << <<p2[3], p2[1]>> >>
        ELSE <<>>

(***************************************************************************)
(* AbstractDirectoryCrawler._read_checksum_file: every line is stripped;   *)
(* a line starting with "#" is passed over; the rest is split at the first *)
(* " *", and at the first " " when that leaves no hash; the entry counts   *)
(* when hash and path are both non-empty.                                  *)
(***************************************************************************)
ParseLine(raw) ==
    LET line == Strip(raw)
        p1 == Partition(line, <<" ", "*">>)
        p2 == IF p1[1] = <<>> THEN Partition(line, <<" ">>) ELSE p1
    IN  IF StartsWith(line, <<"#">>) THEN <<>>
        ELSE IF p2[1] # <<>> /\ p2[3] # <<>> THEN << <<p2[3], p2[1]>> >>
        ELSE <<>>

RECURSIVE ParseLines(_)
ParseLines(lines) ==
    IF lines = <<>> THEN <<>> ELSE ParseLine(Head(lines)) \o ParseLines(Tail(lines))

\* the hashinfo of a text
ParseText(text) == ParseLines(FileLines(text))

read_checksum_file(tree, filename) ==
    IF path_isfile(tree, filename)
    THEN [value |-> ParseText(Resolve(tree, filename).data), exc |-> "none"]
    ELSE [value |-> <<>>,
          exc |-> IF path_isdir(tree, filename) THEN "IsADirectoryError"
                  ELSE "FileNotFoundError"]

(***************************************************************************)
(* Filehash(hashtype, filename).hexdigest().  _hash_factory raises         *)
(* ValueError for a name that is neither "crc32" nor known to hashlib.     *)
(* The file is opened in text mode, so every chunk read is a str: a        *)
(* hashlib object refuses it in update() (TypeError), and _CRC32Hash       *)
(* takes it but hands a str to zlib.crc32 in hexdigest() (TypeError, also  *)
(* for no chunk at all).  A digest comes back only for a hashlib algorithm *)
(* and an empty file.                                                      *)
(***************************************************************************)
Md5 == <<"m", "d", "5">>
Sha1 == <<"s", "h", "a", "1">>
Crc32 == <<"c", "r", "c", "3", "2">>

\* the names hashlib.new accepts, as far as the model uses them
HashlibAlgorithms == {Md5, Sha1}

\* hashlib.md5(b"").hexdigest() and hashlib.sha1(b"").hexdigest()
EmptyDigest(hashtype) ==
    IF hashtype = Md5
    THEN <<"d","4","1","d","8","c","d","9","8","f","0","0","b","2","0","4",
           "e","9","8","0","0","9","9","8","e","c","f","8","4","2","7","e">>
    ELSE <<"d","a","3","9","a","3","e","e","5","e","6","b","4","b","0","d",
           "3","2","5","5","b","f","e","f","9","5","6","0","1","8","9","0",
           "a","f","d","8","0","7","0","9">>

\* _hash_factory: which hash object is made
hash_factory(hashtype) ==
    IF Lower(hashtype) = Crc32 THEN "crc32"
    ELSE IF hashtype \in HashlibAlgorithms THEN "hashlib"
    ELSE "ValueError"

Filehash_hexdigest(tree, hashtype, filename) ==
    LET h == hash_factory(hashtype)
        f == Resolve(tree, filename)
    IN  IF h = "ValueError" THEN [value |-> <<>>, exc |-> "ValueError"]
        ELSE IF f.kind \in {"none", "link"} THEN [value |-> <<>>, exc |-> "FileNotFoundError"]
        ELSE IF f.kind = "dir" THEN [value |-> <<>>, exc |-> "IsADirectoryError"]
        ELSE IF h = "hashlib" /\ f.data # <<>> THEN [value |-> <<>>, exc |-> "TypeError"]
        ELSE IF h = "crc32" THEN [value |-> <<>>, exc |-> "TypeError"]
        ELSE [value |-> EmptyDigest(hashtype), exc |-> "none"]

(***************************************************************************)
(* What the crawlers hand to their console, in order: the level of the     *)
(* call, the kind of message and the path or name it is about.             *)
(***************************************************************************)
Msg(level, what, path) == [level |-> level, what |-> what, path |-> path]

\* the local time of the k-th manifest write of a call: the clock's second
\* changes before write number tick
Now(tick, k) ==
    IF k < tick
    THEN <<"2","0","2","4","-","0","1","-","1","5"," ","1","0",":","3","0",":","0","0">>
    ELSE <<"2","0","2","4","-","0","1","-","1","5"," ","1","0",":","3","0",":","0","1">>

(***************************************************************************)
(* HashGenerator.__init__: the fields, with the default file name.         *)
(***************************************************************************)
HashGenerator_init(hashtype, recursive, basedir_only, filename, overwrite, backup, include, exclude) ==
    [hashtype |-> hashtype, recursive |-> recursive, basedir_only |-> basedir_only,
     overwrite |-> overwrite, backup |-> backup,
     include |-> include, exclude |-> exclude,
     filename |-> IF filename # <<>> THEN filename
                  ELSE <<"c","h","e","c","k","s","u","m","s">> \o <<".">> \o hashtype]

(***************************************************************************)
(* HashGenerator._write_hashinfo.  First the targets: for each overwrite   *)
(* glob in turn, the names of the directory it matches that are regular    *)
(* files, appended to one list; the configured file name when that list    *)
(* stays empty.  Then, target by target: the rename to "<target>.bak" when *)
(* the target exists and backup is set, and the write of the manifest.     *)
(* An exception ends the call where it is raised.                          *)
(***************************************************************************)
BakSuffix == <<".", "b", "a", "k">>

\* fnmatch.filter(os.listdir(directory), glob) filtered by isfile
MatchingFiles(tree, directory, glob) ==
    SelectSeq(listdir(tree, directory),
              LAMBDA name : fnmatch(name, glob) /\ path_isfile(tree, path_join(directory, name)))

RECURSIVE OverwriteTargets(_, _, _)
OverwriteTargets(tree, directory, globs) ==
    IF globs = <<>> THEN <<>>
    ELSE MatchingFiles(tree, directory, Head(globs))
         \o OverwriteTargets(tree, directory, Tail(globs))

\* target selection that takes directories as well as files
files_to_write_AnyKind(self, tree, directory) ==
    LET found == Flatten([i \in DOMAIN self.overwrite |->
                    SelectSeq(listdir(tree, directory),
                              LAMBDA name : fnmatch(name, self.overwrite[i]))])
    IN  IF found = <<>> THEN <<self.filename>> ELSE found

\* the list files_to_write of _write_hashinfo
files_to_write(self, tree, directory) ==
    LET found == OverwriteTargets(tree, directory, self.overwrite)
    IN  IF found = <<>> THEN <<self.filename>> ELSE found

\* the state a generator call threads through its steps
GenState(tree, tick) ==
    [fs |-> tree, console |-> <<>>, exc |-> "none", tree_hashes |-> <<>>,
     writes |-> <<>>, tick |-> tick]

\* one target: backup, then write
\* the write of the manifest to a target, st being the state after the backup
WriteManifest(st, filepath, hashinfo) ==
    Only({ IF wr.exc # "none" THEN [st EXCEPT !.exc = wr.exc]
           ELSE [st EXCEPT !.fs = wr.fs,
                           !.console = Append(@, Msg("INFO", "Checksum file generated", filepath)),
                           !.writes = Append(@, filepath)] :
           wr \in {write_checksum_file(st.fs, filepath, hashinfo,
                                       Now(st.tick, Len(st.writes)))} })

WriteTarget(self, st, filepath, hashinfo) ==
    IF path_exists(st.fs, filepath) /\ self.backup
    THEN Only({ IF bak.exc # "none" THEN [st EXCEPT !.exc = bak.exc]
                ELSE WriteManifest(
                         [st EXCEPT !.fs = bak.fs,
                                    !.console = Append(@, Msg("INFO", "Backing-up", filepath))],
                         filepath, hashinfo) :
                bak \in {FsRename(st.fs, filepath, filepath \o BakSuffix)} })
    ELSE WriteManifest(st, filepath, hashinfo)

RECURSIVE WriteTargets(_, _, _, _, _)
WriteTargets(self, st, directory, files, hashinfo) ==
    Only({ IF files = <<>> \/ s.exc # "none" THEN s
           ELSE WriteTargets(self,
                    WriteTarget(self, s, path_join(directory, Head(files)), hashinfo),
                    directory, Tail(files), hashinfo) :
           s \in {st} })

write_hashinfo(self, st, directory, hashinfo) ==
    Only({ WriteTargets(self, s, directory, files_to_write(self, s.fs, directory), hashinfo) :
           s \in {st} })

(***************************************************************************)
(* os.walk(root, topdown=True), as the crawlers' loops consume it.  The    *)
(* walk is lazy: a directory is listed when the loop reaches it, after the *)
(* loop body ran for every directory before it; a path that is no          *)
(* directory by then is passed over.  The directories still to visit are   *)
(* kept in pending, the children of a directory before its siblings.       *)
(* Without recursive the code takes next(dirtree) alone, which raises      *)
(* StopIteration when the walk yields nothing.                             *)
(***************************************************************************)
subdirs(tree, dir) ==
    SelectSeq(listdir(tree, dir), LAMBDA n : path_isdir(tree, path_join(dir, n)))

subfiles(tree, dir) ==
    SelectSeq(listdir(tree, dir), LAMBDA n : ~path_isdir(tree, path_join(dir, n)))

\* the directories to visit after dir, given those pending before it
WalkOn(recursive, tree, dir, pending) ==
    IF recursive
    THEN [i \in DOMAIN subdirs(tree, dir) |-> path_join(dir, subdirs(tree, dir)[i])]
         \o Tail(pending)
    ELSE <<>>

(***************************************************************************)
(* HashGenerator.process_directory.  The call that hashes a file passes    *)
(* its arguments as (filepath, self.hashtype), while Filehash takes        *)
(* (hashtype, filename): the path is taken for the name of the algorithm.  *)
(***************************************************************************)
\* the inner loop: the files of dir that pass the filter are hashed in turn
RECURSIVE GenFiles(_, _, _, _, _, _)
GenFiles(self, st, root, dir, files, dir_hashes) ==
    IF files = <<>> THEN [st |-> st, dir_hashes |-> dir_hashes]
    ELSE Only({
           IF h.exc # "none"
           THEN [st |-> [s EXCEPT !.exc = h.exc], dir_hashes |-> hs]
           ELSE GenFiles(self,
                  [s EXCEPT !.console =
                                Append(@, Msg("DEBUG", "hash", path_join(dir, Head(files)))),
                            !.tree_hashes =
                                Append(@, <<path_relpath(path_join(dir, Head(files)), root),
                                            h.value>>)],
                  root, dir, Tail(files),
                  Append(hs, <<Head(files), h.value>>)) :
           s \in {st}, hs \in {dir_hashes},
           h \in {Filehash_hexdigest(st.fs, path_join(dir, Head(files)), self.hashtype)} })

\* the loop body for one directory of the walk
GenDirectory(self, st, root, dir) ==
    Only({ IF r.st.exc # "none" THEN r.st
           ELSE IF r.dir_hashes # <<>> /\ ~self.basedir_only
           THEN write_hashinfo(self, r.st, dir, r.dir_hashes)
           ELSE r.st :
           r \in {GenFiles(self,
                     [st EXCEPT !.console = Append(@, Msg("DEBUG", "Processing", dir))],
                     root, dir,
                     GlobFilter_filter(self.include, self.exclude, subfiles(st.fs, dir)),
                     <<>>)} })

RECURSIVE GenWalk(_, _, _, _)
GenWalk(self, st, root, pending) ==
    Only({ IF p = <<>> \/ s.exc # "none" THEN s
           ELSE IF ~path_isdir(s.fs, Head(p))
           THEN GenWalk(self, s, root, Tail(p))
           ELSE GenWalk(self, GenDirectory(self, s, root, Head(p)), root,
                        WalkOn(self.recursive, s.fs, Head(p), p)) :
           s \in {st}, p \in {pending} })

HashGenerator_process_directory(self, tree, root, tick) ==
    IF ~self.recursive /\ ~path_isdir(tree, root)
    THEN [GenState(tree, tick) EXCEPT !.exc = "StopIteration"]
    ELSE Only({ IF st.exc = "none" /\ st.tree_hashes # <<>> /\ self.basedir_only
                THEN write_hashinfo(self, st, root, st.tree_hashes)
                ELSE st :
                st \in {GenWalk(self, GenState(tree, tick), root, <<root>>)} })

(***************************************************************************)
(* HashVerifier.__init__ and HashVerifier.process_directory.  Here too the *)
(* file is hashed by Filehash(fnpath, self.hashtype), and the digest read  *)
(* from the manifest is held in the variable that the computed one is then *)
(* assigned to, so that the comparison is of the computed digest with      *)
(* itself.                                                                 *)
(***************************************************************************)
HashVerifier_init(hashtype, recursive, filenames, include, exclude) ==
    [hashtype |-> hashtype, recursive |-> recursive,
     include |-> include, exclude |-> exclude,
     filenames |-> IF filenames # <<>> THEN filenames
                   ELSE << <<"*", ".">> \o hashtype >>]

VerState(tree) == [fs |-> tree, console |-> <<>>, exc |-> "none"]

\* the loop over the entries of one manifest; file_ok is the flag of the code
RECURSIVE VerEntries(_, _, _, _, _)
VerEntries(self, st, dir, hashinfo, file_ok) ==
    IF hashinfo = <<>> THEN [st |-> st, file_ok |-> file_ok]
    ELSE Only({
           LET say(level, what) == [s EXCEPT !.console = Append(@, Msg(level, what, fnpath))]
           IN  IF ~GlobFilter_call(self.include, self.exclude, path_basename(fn))
               THEN VerEntries(self, say("DEBUG", "SKIPPED"), dir, Tail(hashinfo), ok)
               ELSE IF ~path_isfile(s.fs, fnpath)
               THEN VerEntries(self, say("ERROR", "MISSING"), dir, Tail(hashinfo), FALSE)
               ELSE Only({
                      IF computed.exc # "none"
                      THEN [st |-> [s EXCEPT !.exc = computed.exc], file_ok |-> ok]
                      ELSE IF Lower(hash) # Lower(hash)
                      THEN VerEntries(self, say("WARNING", "INVALID"), dir,
                                      Tail(hashinfo), FALSE)
                      ELSE VerEntries(self, say("DEBUG", "OK"), dir, Tail(hashinfo), ok) :
                      computed \in {Filehash_hexdigest(s.fs, fnpath, self.hashtype)},
                      hash \in {Filehash_hexdigest(s.fs, fnpath, self.hashtype).value} }) :
           s \in {st}, ok \in {file_ok}, fn \in {Head(hashinfo)[1]},
           fnpath \in {path_join(dir, Head(hashinfo)[1])} })

\* a verifier that empties each manifest it has gone through
VerFile_Truncating(self, st, dir, filepath) ==
    Only({ IF rd.exc # "none" THEN [st1 EXCEPT !.exc = rd.exc]
           ELSE Only({ [r.st EXCEPT !.fs = FsWrite(@, filepath, <<>>).fs] :
                       r \in {VerEntries(self, st1, dir, rd.value, TRUE)} }) :
           st1 \in {[st EXCEPT !.console = Append(@, Msg("DEBUG", "Verifying", filepath))]},
           rd \in {read_checksum_file(st.fs, filepath)} })

\* one manifest: its entries, then its overall status
VerFile(self, st, dir, filepath) ==
    Only({ IF rd.exc # "none" THEN [st1 EXCEPT !.exc = rd.exc]
           ELSE Only({ IF r.st.exc # "none" THEN r.st
                       ELSE [r.st EXCEPT !.console =
                               Append(@, IF ~r.file_ok
                                         THEN Msg("ERROR", "FILE ERROR", filepath)
                                         ELSE Msg("INFO", "FILE OK", filepath))] :
                       r \in {VerEntries(self, st1, dir, rd.value, TRUE)} }) :
           st1 \in {[st EXCEPT !.console = Append(@, Msg("DEBUG", "Verifying", filepath))]},
           rd \in {read_checksum_file(st.fs, filepath)} })

\* the loop over the manifests of one directory
RECURSIVE VerFiles(_, _, _, _)
VerFiles(self, st, dir, files) ==
    Only({ IF files = <<>> \/ s.exc # "none" THEN s
           ELSE VerFiles(self, VerFile(self, s, dir, path_join(dir, Head(files))),
                         dir, Tail(files)) :
           s \in {st} })

VerDirectory(self, st, dir) ==
    VerFiles(self, [st EXCEPT !.console = Append(@, Msg("DEBUG", "Processing", dir))], dir,
             GlobFilter_filter(self.filenames, <<>>, subfiles(st.fs, dir)))

RECURSIVE VerWalk(_, _, _)
VerWalk(self, st, pending) ==
    Only({ IF p = <<>> \/ s.exc # "none" THEN s
           ELSE IF ~path_isdir(s.fs, Head(p)) THEN VerWalk(self, s, Tail(p))
           ELSE VerWalk(self, VerDirectory(self, s, Head(p)),
                        WalkOn(self.recursive, s.fs, Head(p), p)) :
           s \in {st}, p \in {pending} })

HashVerifier_process_directory(self, tree, root) ==
    IF ~self.recursive /\ ~path_isdir(tree, root)
    THEN [VerState(tree) EXCEPT !.exc = "StopIteration"]
    ELSE VerWalk(self, VerState(tree), <<root>>)

(***************************************************************************)
(* UncheckedCrawler.  __init__ stores include, exclude and recursive and   *)
(* then reads the name "filename", which is not defined (the parameter is  *)
(* "filenames"): NameError, and no crawler object comes into being.        *)
(* include and exclude default to None; given says which were passed.      *)
(***************************************************************************)
UncheckedCrawler_init(filenames, recursive, include, exclude, given) ==
    [exc |-> "NameError",
     self |-> [include |-> include, exclude |-> exclude, given |-> given,
               recursive |-> recursive]]

(***************************************************************************)
(* UncheckedCrawler.process_directory, for an object that has its fields   *)
(* (filenames too).  The first manifest found is read with                 *)
(* self._read_hashfile, a method no class defines (AttributeError); the    *)
(* first file that passes the filter is looked up in "treehashinfo", a     *)
(* name that is not defined (NameError); a filter whose exclude is None    *)
(* fails on the first name it is asked about (TypeError).                  *)
(***************************************************************************)
UncDirectory(self, st, dir) ==
    LET st1 == [st EXCEPT !.console = Append(@, Msg("DEBUG", "Processing", dir))]
        manifests == GlobFilter_filter(self.filenames, <<>>, subfiles(st.fs, dir))
        files == subfiles(st.fs, dir)
    IN  IF manifests # <<>> THEN [st1 EXCEPT !.exc = "AttributeError"]
        ELSE IF files = <<>> THEN st1
        ELSE IF ~self.given THEN [st1 EXCEPT !.exc = "TypeError"]
        ELSE IF GlobFilter_filter(self.include, self.exclude, files) # <<>>
        THEN [st1 EXCEPT !.exc = "NameError"]
        ELSE st1

RECURSIVE UncWalk(_, _, _)
UncWalk(self, st, pending) ==
    Only({ IF p = <<>> \/ s.exc # "none" THEN s
           ELSE IF ~path_isdir(s.fs, Head(p)) THEN UncWalk(self, s, Tail(p))
           ELSE UncWalk(self, UncDirectory(self, s, Head(p)),
                        WalkOn(self.recursive, s.fs, Head(p), p)) :
           s \in {st}, p \in {pending} })

UncheckedCrawler_process_directory(self, tree, root) ==
    IF ~self.recursive /\ ~path_isdir(tree, root)
    THEN [VerState(tree) EXCEPT !.exc = "StopIteration"]
    ELSE UncWalk(self, VerState(tree), <<root>>)

\* what a caller gets who constructs the crawler and runs it on one root
Unchecked_run(filenames, recursive, include, exclude, given, tree, root) ==
    LET made == UncheckedCrawler_init(filenames, recursive, include, exclude, given)
    IN  IF made.exc # "none" THEN [VerState(tree) EXCEPT !.exc = made.exc]
        ELSE UncheckedCrawler_process_directory(
                 [filenames |-> filenames, recursive |-> recursive, include |-> include,
                  exclude |-> exclude, given |-> given], tree, root)

(***************************************************************************)
(* The filter on its own: a GlobFilter is constructed with an include and  *)
(* an exclude list and is then called on names, any number of times.       *)
(***************************************************************************)
FilterGlobs == {<<"*">>, <<"a", "*">>, <<"?", "b">>, <<"*", ".", "b">>}
FilterNames == {<<>>, <<"a">>, <<"b">>, <<"a", "b">>, <<"b", "b">>, <<"a", ".", "b">>}

NoCall == [name |-> <<>>, result |-> FALSE, made |-> FALSE]

FilterInit ==
    /\ obj \in [include : SeqUpTo(FilterGlobs, MaxGlobs),
                exclude : SeqUpTo(FilterGlobs, MaxGlobs)]
    /\ pc = "filter"
    /\ fs = <<>>
    /\ console = <<>>
    /\ exc = "none"
    /\ args = NoCall
    /\ ret = NoCall

\* one call of the filter; args keeps the call before it
FilterCall ==
    /\ pc = "filter"
    /\ \E string \in FilterNames :
          ret' = [name |-> string,
                  result |-> GlobFilter_call(obj.include, obj.exclude, string),
                  made |-> TRUE]
    /\ args' = ret
    /\ UNCHANGED <<fs, obj, pc, console, exc>>

FilterNext == FilterCall

SpecFilter == FilterInit /\ [][FilterNext]_vars

MatchesSome(globs, string) == \E i \in DOMAIN globs : fnmatch(string, globs[i])

\* C7: a name that matches at least one exclude glob is rejected, whatever
\* the include list holds.
C7_ExcludePrecedence ==
    (pc = "filter" /\ ret.made /\ MatchesSome(obj.exclude, ret.name))
        => ret.result = FALSE

\* a call on a name that an exclude glob and an include glob both match
C7_Witness ==
    /\ pc = "filter" /\ ret.made
    /\ MatchesSome(obj.exclude, ret.name)
    /\ MatchesSome(obj.include, ret.name)
    /\ ret.result = FALSE

\* C8: a name that matches no exclude glob is accepted when the include list
\* is empty and otherwise exactly when some include glob matches it; two
\* calls on the same name give the same answer.
C8_IncludeSemantics ==
    /\ (pc = "filter" /\ ret.made /\ ~MatchesSome(obj.exclude, ret.name))
          => (ret.result = (obj.include = <<>> \/ MatchesSome(obj.include, ret.name)))
    /\ (pc = "filter" /\ ret.made /\ args.made /\ args.name = ret.name)
          => args.result = ret.result

\* an empty include list lets a name through; a non-empty one has rejected a
\* name that no exclude glob matches
C8_Witness ==
    /\ pc = "filter" /\ ret.made /\ args.made
    /\ ~MatchesSome(obj.exclude, ret.name)
    /\ obj.include # <<>> /\ ~MatchesSome(obj.include, ret.name)
    /\ ret.result = FALSE
    /\ args.name = ret.name

(***************************************************************************)
(* The codec on its own: a hashinfo sequence is written to a file of the   *)
(* empty root directory and the file is read back.                         *)
(***************************************************************************)
CodecPaths ==
    { <<"a">>, <<"b", ".", "c">>, <<" ", "a">>, <<"a", "\t">>,
      <<"a", " ", "*", "b">>, <<>> }
CodecHashes == { <<"a", "1">>, <<"F", "0">>, <<>>, <<" ", "1">> }
CodecFile == path_join(RootName, <<"m">>)

HexDigits == {"0", "1", "2", "3", "4", "5", "6", "7", "8", "9",
              "a", "b", "c", "d", "e", "f", "A", "B", "C", "D", "E", "F"}
IsHex(s) == s # <<>> /\ \A i \in DOMAIN s : s[i] \in HexDigits

CodecInit ==
    /\ args \in [hashinfo : SeqUpTo(CodecPaths \X CodecHashes, MaxEntries),
                 ts : Timestamps]
    /\ pc = "codec"
    /\ fs = <<>>
    /\ obj = "AbstractDirectoryCrawler"
    /\ console = <<>>
    /\ exc = "none"
    /\ ret = <<>>

CodecWrite ==
    /\ pc = "codec"
    /\ \E r \in {write_checksum_file(fs, CodecFile, args.hashinfo, args.ts)} :
           fs' = r.fs /\ exc' = r.exc
    /\ pc' = "written"
    /\ UNCHANGED <<obj, console, args, ret>>

CodecRead ==
    /\ pc = "written"
    /\ \E r \in {read_checksum_file(fs, CodecFile)} :
           ret' = r.value /\ exc' = r.exc
    /\ pc' = "read"
    /\ UNCHANGED <<fs, obj, console, args>>

CodecNext == CodecWrite \/ CodecRead

SpecCodec == CodecInit /\ [][CodecNext]_vars

\* the entries the round trip is claimed for
SpaceFree(s) == \A i \in DOMAIN s : s[i] # " " /\ s[i] # "*"
WhitespaceFree(s) == \A i \in DOMAIN s : s[i] \notin Whitespace /\ s[i] # "*"

Reverse(seq) == [i \in DOMAIN seq |-> seq[Len(seq) + 1 - i]]

NameA == <<"a">>
NameB == <<"b">>
NameC == <<"c", ".", "m", "d", "5">>
NameD == <<"d", ".", "m", "d", "5">>
NameS == <<"s">>

\* the choices for one name of a directory: no entry, or one of the entries
Optional(entries) == {<<>>} \cup {<<e>> : e \in entries}

WriteTrees ==
    { Flatten(<<a, c, k, d>>) :
        a \in Optional({File(NameA, <<>>)}),
        c \in Optional({File(NameC, <<"O">>)}),
        k \in Optional({File(NameC \o BakSuffix, <<"K">>), Dir(NameC \o BakSuffix, <<>>)}),
        d \in Optional({Dir(NameD, <<>>)}) }

WriteGlobs == { <<"*", ".", "m", "d", "5">>, <<"c", "*">>, <<"*">> }
WriteFilenames == { <<>>, NameC, NameD }
WriteHashinfo == << <<NameA, <<"a", "1">> >> >>

WriteInit ==
    /\ \E t \in WriteTrees : fs \in {t, Reverse(t)}
    /\ \E ov \in SeqUpTo(WriteGlobs, MaxGlobs), bk \in BOOLEAN, fn \in WriteFilenames :
          obj = HashGenerator_init(Md5, FALSE, FALSE, fn, ov, bk, <<>>, <<>>)
    /\ args \in [directory : {RootName}, hashinfo : {WriteHashinfo}, tick : 0..1,
                 before : {<<>>}]
    /\ pc = "write_hashinfo"
    /\ console = <<>>
    /\ exc = "none"
    /\ ret = [targets |-> <<>>, writes |-> <<>>]

WriteCall ==
    /\ pc = "write_hashinfo"
    /\ \E st \in {write_hashinfo(obj, GenState(fs, args.tick), args.directory,
                                  args.hashinfo)} :
           /\ fs' = st.fs
           /\ console' = st.console
           /\ exc' = st.exc
           /\ ret' = [targets |-> files_to_write(obj, fs, args.directory),
                      writes |-> st.writes]
    /\ args' = [args EXCEPT !.before = fs]
    /\ pc' = "returned"
    /\ UNCHANGED obj

WriteNext == WriteCall

SpecWrite == WriteInit /\ [][WriteNext]_vars

Range(seq) == {seq[i] : i \in DOMAIN seq}

\* the names of a directory that are regular files and match an overwrite glob
OverwriteMatches(self, tree, directory) ==
    {n \in Range(listdir(tree, directory)) :
        /\ path_isfile(tree, path_join(directory, n))
        /\ \E i \in DOMAIN self.overwrite : fnmatch(n, self.overwrite[i])}

\* the paths a call on the directory is to write
PlacementOf(self, tree, directory) ==
    IF OverwriteMatches(self, tree, directory) # {}
    THEN {path_join(directory, n) : n \in OverwriteMatches(self, tree, directory)}
    ELSE {path_join(directory, self.filename)}

\* the texts that are the manifest of a hashinfo
ManifestTexts(hashinfo) == {ChecksumText(Now(1, k), hashinfo) : k \in 0..1}

\* C10: the targets of _write_hashinfo are exactly the regular files of the
\* directory that match an overwrite glob when there is one, and otherwise
\* exactly the configured file name; a call that returns has written the
\* manifest to exactly these paths, and a call that an I/O error ends has
\* written to no other path.
C10_Placement ==
    pc = "returned" =>
        /\ {path_join(args.directory, n) : n \in Range(ret.targets)}
              = PlacementOf(obj, args.before, args.directory)
        /\ Range(ret.writes) \subseteq PlacementOf(obj, args.before, args.directory)
        /\ exc = "none" =>
              Range(ret.writes) = PlacementOf(obj, args.before, args.directory)

\* a directory of the listing matches an overwrite glob and is no target,
\* while two regular files are
C10_Witness ==
    /\ pc = "returned" /\ exc = "none"
    /\ \E i \in DOMAIN obj.overwrite : fnmatch(NameD, obj.overwrite[i])
    /\ path_isdir(args.before, path_join(RootName, NameD))
    /\ Cardinality(Range(ret.writes)) = 2
    /\ path_isdir(fs, path_join(RootName, NameD))

\* C6 as stated: with backup enabled, every write target that existed before
\* the call has afterwards a "<target>.bak" holding what the target held
\* before, and the target holds the new manifest.
C6_BackupBeforeOverwrite ==
    (pc = "returned" /\ exc = "none" /\ obj.backup) =>
        \A p \in PlacementOf(obj, args.before, args.directory) :
            path_exists(args.before, p) =>
                /\ path_isfile(fs, p \o BakSuffix)
                /\ Resolve(fs, p \o BakSuffix).data = Resolve(args.before, p).data
                /\ path_isfile(fs, p)
                /\ Resolve(fs, p).data \in ManifestTexts(args.hashinfo)

\* how often a path occurs in a sequence of paths
Occurrences(paths, p) == Cardinality({i \in DOMAIN paths : paths[i] = p})

BackedUp == [i \in DOMAIN console |-> IF console[i].what = "Backing-up" THEN console[i].path ELSE <<>>]

\* C26 as stated: in one _write_hashinfo call every distinct target is
\* written exactly once and backed up at most once, and with backup enabled
\* "<target>.bak" holds what the target held before the call, not the
\* manifest of this call.
C26_TargetOnce ==
    (pc = "returned" /\ exc = "none") =>
        \A p \in PlacementOf(obj, args.before, args.directory) :
            /\ Occurrences(ret.writes, p) = 1
            /\ Occurrences(BackedUp, p) <= 1
            /\ (obj.backup /\ path_isfile(args.before, p)) =>
                  /\ Resolve(fs, p \o BakSuffix).data = Resolve(args.before, p).data
                  /\ Resolve(fs, p \o BakSuffix).data \notin ManifestTexts(args.hashinfo)

(***************************************************************************)
(* Generate, then verify: a generator is constructed and run on the root   *)
(* of a tree of data files; then a verifier of the same algorithm and      *)
(* recursion setting, with no include or exclude glob, is run on it.       *)
(***************************************************************************)
GenTrees ==
    { Flatten(<<a, b, d>>) :
        a \in Optional({File(NameA, <<>>), File(NameA, <<"x">>)}),
        b \in Optional({File(NameB, <<>>)}),
        d \in Optional({Dir(NameS, <<>>), Dir(NameS, <<File(NameA, <<>>)>>)}) }

GenIncludes == { <<>>, << <<"b">> >>, << <<"z", "*">> >> }

Init ==
    /\ \E t \in GenTrees : fs \in {t, Reverse(t)}
    /\ \E ht \in {Md5, Crc32}, rec \in BOOLEAN, bo \in BOOLEAN, inc \in GenIncludes :
          obj = HashGenerator_init(ht, rec, bo, <<>>, <<>>, TRUE, inc, <<>>)
    /\ args = [root |-> RootName, tick |-> 0]
    /\ pc = "start"
    /\ console = <<>>
    /\ exc = "none"
    /\ ret = [generator |-> "none", before |-> <<>>, writes |-> <<>>]

Generate ==
    /\ pc = "start"
    /\ \E st \in {HashGenerator_process_directory(obj, fs, args.root, args.tick)} :
           /\ fs' = st.fs
           /\ console' = st.console
           /\ exc' = st.exc
           /\ ret' = [generator |-> st.exc, before |-> fs, writes |-> st.writes]
    /\ pc' = "generated"
    /\ UNCHANGED <<obj, args>>

Verify ==
    /\ pc = "generated"
    /\ \E st \in {HashVerifier_process_directory(
                       HashVerifier_init(obj.hashtype, obj.recursive, <<>>, <<>>, <<>>),
                       fs, args.root)} :
           /\ console' = st.console
           /\ exc' = st.exc
    /\ pc' = "verified"
    /\ UNCHANGED <<fs, obj, args, ret>>

Next == Generate \/ Verify

Spec == Init /\ [][Next]_vars

Said(what) == {console[i].path : i \in {j \in DOMAIN console : console[j].what = what}}
Count(what) == Cardinality({j \in DOMAIN console : console[j].what = what})

\* the files of a directory listing, and of the directories below it, that
\* pass a generator's filter
RECURSIVE Hashable(_, _, _)
Hashable(self, listing, deep) ==
    \E i \in DOMAIN listing :
        \/ /\ listing[i].kind = "file"
           /\ GlobFilter_call(self.include, self.exclude, listing[i].name)
        \/ /\ deep /\ listing[i].kind = "dir"
           /\ Hashable(self, listing[i].data, deep)

\* C1 as stated: after the generator ran on a tree and the verifier ran
\* after it, both have returned, the verifier has reported no entry MISSING
\* or INVALID and no manifest ERROR, and, when a file of the tree passed
\* the generator's filter, it has reported a manifest OK.
C1_GenerateThenVerify ==
    pc = "verified" =>
        /\ ret.generator = "none"
        /\ exc = "none"
        /\ Count("MISSING") = 0 /\ Count("INVALID") = 0 /\ Count("FILE ERROR") = 0
        /\ Hashable(obj, ret.before, obj.recursive) => Count("FILE OK") > 0

(***************************************************************************)
(* Verification of an existing manifest: the root directory holds data     *)
(* files and the manifest c.md5; a file may be changed or deleted; then a  *)
(* verifier is run on the root.                                            *)
(***************************************************************************)
\* hashlib.md5(b"x").hexdigest()
Md5OfX ==
    <<"9","d","d","4","e","4","6","1","2","6","8","c","8","0","3","4",
      "f","5","c","8","5","6","4","e","1","5","5","c","6","7","a","6">>

\* the md5 digest of the texts data files hold in this model
TrueDigest(text) == IF text = <<>> THEN EmptyDigest(Md5) ELSE Md5OfX

UpperChar(c) ==
    CASE c = "a" -> "A" [] c = "b" -> "B" [] c = "c" -> "C" [] c = "d" -> "D"
      [] c = "e" -> "E" [] c = "f" -> "F" [] OTHER -> c

Upper(s) == [i \in 1..Len(s) |-> UpperChar(s[i])]

DataTexts == { <<>>, <<"x">> }
StoredDigests == { EmptyDigest(Md5), Upper(EmptyDigest(Md5)), Md5OfX }
ManifestPath == path_join(RootName, NameC)

VerifyTrees ==
    { Flatten(<<a, b>>) :
        a \in Optional({File(NameA, t) : t \in DataTexts}),
        b \in Optional({File(NameB, t) : t \in DataTexts}) }

VerifyInit ==
    /\ \E t \in VerifyTrees, hi \in SeqUpTo({NameA, NameB} \X StoredDigests, MaxEntries) :
          /\ fs = Append(t, File(NameC, ChecksumText(Now(1, 0), hi)))
          /\ args = [root |-> RootName, hashinfo |-> hi, before |-> t,
                     change |-> "none", path |-> <<>>]
    /\ \E ht \in {Md5, Crc32}, ex \in {<<>>, << NameB >>} :
          obj = HashVerifier_init(ht, FALSE, <<>>, <<>>, ex)
    /\ pc = "start"
    /\ console = <<>>
    /\ exc = "none"
    /\ ret = <<>>

\* the text of a data file is changed
Tamper ==
    /\ pc = "start"
    /\ \E i \in DOMAIN fs, t \in DataTexts :
          /\ fs[i].name \in {NameA, NameB}
          /\ t # fs[i].data
          /\ fs' = [fs EXCEPT ![i].data = t]
          /\ args' = [args EXCEPT !.change = "tamper",
                                  !.path = path_join(RootName, fs[i].name)]
    /\ pc' = "changed"
    /\ UNCHANGED <<obj, console, exc, ret>>

\* a data file is deleted
Delete ==
    /\ pc = "start"
    /\ \E i \in DOMAIN fs :
          /\ fs[i].name \in {NameA, NameB}
          /\ fs' = Without(fs, fs[i].name)
          /\ args' = [args EXCEPT !.change = "delete",
                                  !.path = path_join(RootName, fs[i].name)]
    /\ pc' = "changed"
    /\ UNCHANGED <<obj, console, exc, ret>>

VerifyRun ==
    /\ pc \in {"start", "changed"}
    /\ \E st \in {HashVerifier_process_directory(obj, fs, args.root)} :
           /\ console' = st.console
           /\ exc' = st.exc
    /\ pc' = "verified"
    /\ UNCHANGED <<fs, obj, args, ret>>

VerifyNext == Tamper \/ Delete \/ VerifyRun

SpecVerify == VerifyInit /\ [][VerifyNext]_vars

\* the manifest is the one a generator wrote for the data files as they
\* were: each file listed once, each digest that of the file's text
ManifestCurrent ==
    /\ \A i \in DOMAIN args.hashinfo :
          /\ Index(args.before, args.hashinfo[i][1]) # 0
          /\ args.hashinfo[i][2]
                = TrueDigest(args.before[Index(args.before, args.hashinfo[i][1])].data)
    /\ \A i, j \in DOMAIN args.hashinfo :
          args.hashinfo[i][1] = args.hashinfo[j][1] => i = j

Listed(path) == \E i \in DOMAIN args.hashinfo : path_join(RootName, args.hashinfo[i][1]) = path

Passes(path) == GlobFilter_call(obj.include, obj.exclude, path_basename(path))

\* C2 as stated: when one file listed in a current manifest was changed, the
\* verifier reports exactly one entry INVALID, that file, and the manifest
\* as ERROR.
C2_TamperDetection ==
    (pc = "verified" /\ args.change = "tamper" /\ obj.hashtype = Md5
     /\ ManifestCurrent /\ Listed(args.path) /\ Passes(args.path))
        => /\ Count("INVALID") = 1
           /\ Said("INVALID") = {args.path}
           /\ Said("FILE ERROR") = {ManifestPath}

\* C3 as stated: when one file listed in a current manifest was deleted, the
\* verifier reports exactly one entry MISSING, that file, the manifest as
\* ERROR, and every other entry that passes the filter OK.
C3_DeletionDetection ==
    (pc = "verified" /\ args.change = "delete" /\ obj.hashtype = Md5
     /\ ManifestCurrent /\ Listed(args.path) /\ Passes(args.path))
        => /\ Count("MISSING") = 1
           /\ Said("MISSING") = {args.path}
           /\ Said("FILE ERROR") = {ManifestPath}
           /\ \A i \in DOMAIN args.hashinfo :
                 LET p == path_join(RootName, args.hashinfo[i][1])
                 IN  (p # args.path /\ Passes(p)) => p \in Said("OK")

\* C9 as stated: an entry whose stored digest differs from the digest of the
\* file only in letter case is reported OK, and a manifest of this entry
\* alone is reported OK.
C9_CaseInsensitive ==
    (pc = "verified" /\ args.change = "none" /\ obj.hashtype = Md5)
        => \A i \in DOMAIN args.hashinfo :
              LET p == path_join(RootName, args.hashinfo[i][1])
                  stored == args.hashinfo[i][2]
              IN  (/\ path_isfile(fs, p) /\ Passes(p)
                   /\ stored # TrueDigest(Resolve(fs, p).data)
                   /\ Lower(stored) = Lower(TrueDigest(Resolve(fs, p).data)))
                  => /\ p \in Said("OK")
                     /\ p \notin Said("INVALID")
                     /\ Len(args.hashinfo) = 1 => Said("FILE OK") = {ManifestPath}

(***************************************************************************)
(* The search for unchecked files: the root directory holds data files and *)
(* the manifest c.md5 that lists some of them; an UncheckedCrawler for the *)
(* glob "*.md5" is constructed and run on the root.                        *)
(***************************************************************************)
NameE == <<"e">>
UncheckedNames == {NameA, NameB, NameE}

UncheckedTrees ==
    { Flatten(<<a, b, e, d>>) :
        a \in Optional({File(NameA, <<>>)}),
        b \in Optional({File(NameB, <<>>)}),
        e \in Optional({File(NameE, <<>>)}),
        d \in Optional({Dir(NameS, <<File(NameA, <<>>)>>)}) }

UncheckedInit ==
    /\ \E t \in UncheckedTrees,
          hi \in SeqUpTo({NameA, NameB} \X {EmptyDigest(Md5)}, MaxEntries) :
          /\ fs = Append(t, File(NameC, ChecksumText(Now(1, 0), hi)))
          /\ args = [root |-> RootName, hashinfo |-> hi,
                     filenames |-> << <<"*", ".", "m", "d", "5">> >>]
    /\ obj \in [recursive : BOOLEAN, given : BOOLEAN, include : {<<>>}, exclude : {<<>>}]
    /\ pc = "start"
    /\ console = <<>>
    /\ exc = "none"
    /\ ret = <<>>

UncheckedRun ==
    /\ pc = "start"
    /\ \E st \in {Unchecked_run(args.filenames, obj.recursive, obj.include, obj.exclude,
                                obj.given, fs, args.root)} :
           /\ console' = st.console
           /\ exc' = st.exc
    /\ pc' = "done"
    /\ UNCHANGED <<fs, obj, args, ret>>

UncheckedNext == UncheckedRun

SpecUnchecked == UncheckedInit /\ [][UncheckedNext]_vars

\* C4 as stated: for data files F and a manifest that lists the subset K of
\* them, the crawler run without include or exclude globs reports exactly
\* the files of F \ K as UNCHECKED.
C4_UncheckedDetection ==
    (pc = "done" /\ ~obj.recursive
     /\ \A i \in DOMAIN args.hashinfo : path_isfile(fs, path_join(RootName, args.hashinfo[i][1])))
        => /\ exc = "none"
           /\ Said("UNCHECKED")
                = {n \in UncheckedNames :
                      /\ path_isfile(fs, path_join(RootName, n))
                      /\ \A i \in DOMAIN args.hashinfo : args.hashinfo[i][1] # n}

(***************************************************************************)
(* The three crawlers on one tree: the root holds data files, the manifest *)
(* c.md5 and possibly the directory s, which may hold a data file, a       *)
(* manifest of its own and the directory t.  One crawler is constructed    *)
(* from the configuration and run on the root.                             *)
(***************************************************************************)
NameT == <<"t">>

SubHashinfo == << <<NameA, EmptyDigest(Md5)>> >>

CrawlSubListings ==
    { Flatten(<<a, m, t>>) :
        a \in Optional({File(NameA, <<>>)}),
        m \in Optional({File(NameC, ChecksumText(Now(1, 0), SubHashinfo))}),
        t \in Optional({Dir(NameT, <<>>)}) }

CrawlInit ==
    /\ \E a \in Optional({File(NameA, <<>>)}),
          b \in Optional({File(NameB, t) : t \in DataTexts}),
          s \in Optional({Dir(NameS, l) : l \in CrawlSubListings}),
          hi \in SeqUpTo({NameA, NameB} \X {EmptyDigest(Md5)}, MaxEntries) :
          /\ fs = Flatten(<<a, b, <<File(NameC, ChecksumText(Now(1, 0), hi))>>, s>>)
          /\ args = [root |-> RootName, hashinfo |-> hi]
    /\ \E rec \in BOOLEAN, ex \in {<<>>, << NameB >>} :
          obj = HashVerifier_init(Md5, rec, <<>>, <<>>, ex)
    /\ pc = "start"
    /\ console = <<>>
    /\ exc = "none"
    /\ ret = [before |-> <<>>, writes |-> <<>>, basedir_only |-> FALSE]

\* a HashVerifier is run on the root
CrawlVerify ==
    /\ pc = "start"
    /\ \E st \in {HashVerifier_process_directory(obj, fs, args.root)} :
           /\ console' = st.console
           /\ exc' = st.exc
    /\ pc' = "verified"
    /\ ret' = [ret EXCEPT !.before = fs]
    /\ UNCHANGED <<fs, obj, args>>

\* a HashGenerator of the same algorithm, recursion setting and globs
CrawlGenerate ==
    /\ pc = "start"
    /\ \E bo \in BOOLEAN :
          \E st \in {HashGenerator_process_directory(
                         HashGenerator_init(obj.hashtype, obj.recursive, bo, <<>>, <<>>,
                                            TRUE, obj.include, obj.exclude),
                         fs, args.root, 0)} :
              /\ fs' = st.fs
              /\ console' = st.console
              /\ exc' = st.exc
              /\ ret' = [before |-> fs, writes |-> st.writes, basedir_only |-> bo]
    /\ pc' = "generated"
    /\ UNCHANGED <<obj, args>>

\* an UncheckedCrawler for the same manifest globs
CrawlUnchecked ==
    /\ pc = "start"
    /\ \E st \in {Unchecked_run(obj.filenames, obj.recursive, obj.include, obj.exclude,
                                TRUE, fs, args.root)} :
           /\ console' = st.console
           /\ exc' = st.exc
    /\ pc' = "searched"
    /\ ret' = [ret EXCEPT !.before = fs]
    /\ UNCHANGED <<fs, obj, args>>

CrawlNext == CrawlVerify \/ CrawlGenerate \/ CrawlUnchecked

SpecCrawl == CrawlInit /\ [][CrawlNext]_vars

SubDir == path_join(RootName, NameS)

\* the manifests a verifier is to select in this tree, with what they list
SelectedManifests ==
    {[dir |-> RootName, path |-> ManifestPath, hashinfo |-> args.hashinfo]}
    \cup IF obj.recursive /\ path_isfile(fs, path_join(SubDir, NameC))
         THEN {[dir |-> SubDir, path |-> path_join(SubDir, NameC), hashinfo |-> SubHashinfo]}
         ELSE {}

EntryPaths(m) == {path_join(m.dir, m.hashinfo[i][1]) : i \in DOMAIN m.hashinfo}

\* the positions of the console at which one of whats is said about one of paths
Lines(whats, paths) ==
    {j \in DOMAIN console : console[j].what \in whats /\ console[j].path \in paths}

Outcomes == {"SKIPPED", "MISSING", "INVALID", "OK"}

\* C11 as stated: every manifest the verifier selects gets exactly one overall
\* status, after an outcome for each of its entries, and the status is ERROR
\* exactly when one of its entries was recorded MISSING or INVALID.
C11_ManifestStatus ==
    pc = "verified" =>
        \A m \in SelectedManifests :
            /\ Cardinality(Lines({"FILE ERROR", "FILE OK"}, {m.path})) = 1
            /\ Cardinality(Lines(Outcomes, EntryPaths(m))) = Len(m.hashinfo)
            /\ \A j \in Lines({"FILE ERROR", "FILE OK"}, {m.path}) :
                  /\ \A k \in Lines(Outcomes, EntryPaths(m)) : k < j
                  /\ console[j].what = "FILE ERROR"
                        <=> Lines({"MISSING", "INVALID"}, EntryPaths(m)) # {}

(***************************************************************************)
(* Reading a manifest that was not written by the generator: its lines are *)
(* of the form "<hash> *<path>" or of the form "<hash> <path>".            *)
(***************************************************************************)
ParseHashes == { EmptyDigest(Md5), <<"0", "f">> }
ParsePaths == { NameA, NameB, <<"s", "/", "a">> }
ParseForms == { <<" ", "*">>, <<" ">> }

ManifestLine(l) == l.hash \o l.form \o l.path \o Linesep

ParseInit ==
    /\ \E ls \in SeqUpTo([hash : ParseHashes, form : ParseForms, path : ParsePaths],
                         MaxEntries) :
          /\ args = [lines |-> ls, filename |-> path_join(RootName, NameC)]
          /\ fs = <<File(NameC, Flatten([i \in DOMAIN ls |-> ManifestLine(ls[i])]))>>
    /\ pc = "written"
    /\ obj = <<>>
    /\ console = <<>>
    /\ exc = "none"
    /\ ret = <<>>

ParseRead ==
    /\ pc = "written"
    /\ \E rd \in {read_checksum_file(fs, args.filename)} :
          /\ ret' = rd.value
          /\ exc' = rd.exc
    /\ pc' = "read"
    /\ UNCHANGED <<fs, obj, console, args>>

ParseNext == ParseRead

SpecParse == ParseInit /\ [][ParseNext]_vars

\* C12 as stated: every line of either form contributes its entry: the
\* manifest read is the sequence of the (path, hash) pairs of its lines.
C12_LenientParsing ==
    pc = "read" =>
        /\ exc = "none"
        /\ ret = [i \in DOMAIN args.lines |-> <<args.lines[i].path, args.lines[i].hash>>]

\* the regular files of a listing that pass the crawler's filter, by name
\* prefixed with prefix, in listing order; with deep, followed by those of
\* each directory below, directory by directory
RECURSIVE Filtered(_, _, _)
Filtered(listing, prefix, deep) ==
    LET files == SelectSeq(listing, LAMBDA e : e.kind = "file"
                               /\ GlobFilter_call(obj.include, obj.exclude, e.name))
        dirs == SelectSeq(listing, LAMBDA e : e.kind = "dir")
    IN  [k \in DOMAIN files |-> prefix \o files[k].name]
        \o IF deep
           THEN Flatten([k \in DOMAIN dirs |->
                           Filtered(dirs[k].data, prefix \o dirs[k].name \o Sep, deep)])
           ELSE <<>>

ChecksumsName == <<"c","h","e","c","k","s","u","m","s",".","m","d","5">>

\* the paths a manifest lists, in the order of its lines
ListedIn(tree, path) ==
    LET hashinfo == read_checksum_file(tree, path).value
    IN  [k \in DOMAIN hashinfo |-> hashinfo[k][1]]

\* C13 as stated: in basedir-only mode the generator returns having written
\* one manifest, at the root, exactly when a file of a visited directory
\* passed the filter; the manifest lists those files by their path relative
\* to the root, in walk order, and no other manifest is written.
C13_BasedirOnly ==
    (pc = "generated" /\ ret.basedir_only) =>
        /\ exc = "none"
        /\ IF Filtered(ret.before, <<>>, obj.recursive) = <<>>
           THEN ret.writes = <<>> /\ fs = ret.before
           ELSE /\ ret.writes = <<path_join(RootName, ChecksumsName)>>
                /\ path_isfile(fs, path_join(RootName, ChecksumsName))
                /\ ListedIn(fs, path_join(RootName, ChecksumsName))
                      = Filtered(ret.before, <<>>, obj.recursive)

\* the directories the walk is to visit in this tree
VisitedDirs ==
    {RootName} \cup IF obj.recursive
                    THEN {d \in {SubDir, path_join(SubDir, NameT)} : path_isdir(ret.before, d)}
                    ELSE {}

FilesOf(tree, dir) == SelectSeq(Resolve(tree, dir).data, LAMBDA e : e.kind = "file")

\* C14 as stated: in per-directory mode every visited directory with a file
\* that passed the filter holds a manifest afterwards that lists exactly
\* those files, by name, in listing order; a visited directory with no such
\* file has no manifest written and its files are as they were.
C14_PerDirectory ==
    (pc = "generated" /\ ~ret.basedir_only) =>
        /\ exc = "none"
        /\ \A d \in VisitedDirs :
              IF Filtered(Resolve(ret.before, d).data, <<>>, FALSE) = <<>>
              THEN /\ \A k \in DOMAIN ret.writes : path_dirname(ret.writes[k]) # d
                   /\ FilesOf(fs, d) = FilesOf(ret.before, d)
              ELSE /\ path_join(d, ChecksumsName) \in Range(ret.writes)
                   /\ path_isfile(fs, path_join(d, ChecksumsName))
                   /\ ListedIn(fs, path_join(d, ChecksumsName))
                         = Filtered(Resolve(ret.before, d).data, <<>>, FALSE)

\* the directories of a listing and below, each before those below it
RECURSIVE PreOrder(_, _)
PreOrder(listing, dir) ==
    LET dirs == SelectSeq(listing, LAMBDA e : e.kind = "dir")
    IN  <<dir>> \o Flatten([k \in DOMAIN dirs |->
                              PreOrder(dirs[k].data, path_join(dir, dirs[k].name))])

\* the directories a crawler said it processes, in the order it said so
Visited ==
    LET at == SelectSeq([j \in DOMAIN console |-> j],
                        LAMBDA j : console[j].what = "Processing")
    IN  [k \in DOMAIN at |-> console[at[k]].path]

\* C15 as stated: whichever crawler ran, without recursion it visited the
\* root alone, said nothing about a path below a subdirectory and wrote
\* nothing there; with recursion it visited every directory of the tree
\* once, each before the directories below it.
C15_RecursionPolicy ==
    pc \in {"verified", "generated", "searched"} =>
        IF obj.recursive
        THEN Visited = PreOrder(ret.before, RootName)
        ELSE /\ Visited = <<RootName>>
             /\ \A j \in DOMAIN console :
                   console[j].path = RootName \/ path_dirname(console[j].path) = RootName
             /\ \A k \in DOMAIN ret.writes : path_dirname(ret.writes[k]) = RootName

\* the entry is one the verifier is to find in order: the file is there and
\* its md5 digest is the stored one, up to letter case
EntryGood(tree, dir, entry) ==
    /\ path_isfile(tree, path_join(dir, entry[1]))
    /\ Lower(entry[2]) = Lower(TrueDigest(Resolve(tree, path_join(dir, entry[1])).data))

\* C16 as stated: an entry whose name fails the verifier's filter is reported
\* neither MISSING nor INVALID, whether or not its file is there and
\* unchanged, and a selected manifest whose other entries are all in order
\* is reported OK and not ERROR.
C16_SkippedNotFailed ==
    pc = "verified" =>
        \A m \in SelectedManifests :
            /\ \A p \in EntryPaths(m) :
                  ~Passes(p) => Lines({"MISSING", "INVALID"}, {p}) = {}
            /\ (\A i \in DOMAIN m.hashinfo :
                   Passes(path_join(m.dir, m.hashinfo[i][1]))
                       => EntryGood(fs, m.dir, m.hashinfo[i]))
                  => /\ Lines({"FILE OK"}, {m.path}) # {}
                     /\ Lines({"FILE ERROR"}, {m.path}) = {}

\* C17 as stated: when the verifier has recorded an entry MISSING or INVALID,
\* it still returns normally, and every entry of every selected manifest has
\* exactly one outcome.
C17_FindingsDoNotAbort ==
    (pc = "verified" /\ Lines({"MISSING", "INVALID"}, UNION {EntryPaths(m) : m \in SelectedManifests}) # {})
        => /\ exc = "none"
           /\ \A m \in SelectedManifests :
                 \A p \in EntryPaths(m) :
                     Cardinality(Lines(Outcomes, {p}))
                        = Cardinality({i \in DOMAIN m.hashinfo :
                                          path_join(m.dir, m.hashinfo[i][1]) = p})

(***************************************************************************)
(* tictactoe.py.  A Board is its nine cells, indexed 0 to 8, each holding  *)
(* "X", "O" or None.                                                       *)
(***************************************************************************)
Cells == 0..8
None == "None"

Board_ROWS ==
    << <<0, 1, 2>>, <<3, 4, 5>>, <<6, 7, 8>>,
       <<0, 3, 6>>, <<1, 4, 7>>, <<2, 5, 8>>,
       <<0, 4, 8>>, <<2, 4, 6>> >>

\* Board(): all cells None
Board_init == [i \in Cells |-> None]

\* Board.winner: the symbol of the first row that one symbol fills
Board_winner(cells) ==
    LET full == {r \in DOMAIN Board_ROWS :
                    /\ cells[Board_ROWS[r][1]] # None
                    /\ cells[Board_ROWS[r][1]] = cells[Board_ROWS[r][2]]
                    /\ cells[Board_ROWS[r][2]] = cells[Board_ROWS[r][3]]}
    IN  IF full = {} THEN None
        ELSE cells[Board_ROWS[CHOOSE r \in full : \A q \in full : r <= q][1]]

\* Board.get_cells: the indices of the cells that hold symbol, ascending
get_cells(cells, symbol) ==
    SelectSeq([k \in 1..9 |-> k - 1], LAMBDA i : cells[i] = symbol)

get_free_cells(cells) == get_cells(cells, None)

(***************************************************************************)
(* AiPlayer.  A strategy returns a cell or None; where the code picks with *)
(* random.choice from a list, any element of the list may be returned.  A  *)
(* strategy is modelled by the set of cells it may return, the empty set   *)
(* standing for None.                                                      *)
(***************************************************************************)
opponent_symbol(symbol) == IF symbol = "O" THEN "X" ELSE "O"

moves_winning(board, symbol) ==
    {x \in Cells : \E r \in DOMAIN Board_ROWS :
        LET a == Board_ROWS[r][1]
            b == Board_ROWS[r][2]
            c == Board_ROWS[r][3]
        IN  \/ x = a /\ board[a] = None /\ board[b] = symbol /\ board[c] = symbol
            \/ x = b /\ board[b] = None /\ board[a] = symbol /\ board[c] = symbol
            \/ x = c /\ board[c] = None /\ board[a] = symbol /\ board[b] = symbol}

move_winning(board, symbol) == moves_winning(board, symbol)

move_blocking(board, symbol) == moves_winning(board, opponent_symbol(symbol))

\* the two free cells of a row whose third cell holds symbol; no cell for
\* any other row
TwoFree(board, symbol, row) ==
    LET a == row[1]
        b == row[2]
        c == row[3]
    IN  IF board[a] = None /\ board[b] = None /\ board[c] = symbol THEN {a, b}
        ELSE IF board[a] = None /\ board[c] = None /\ board[b] = symbol THEN {a, c}
        ELSE IF board[b] = None /\ board[c] = None /\ board[a] = symbol THEN {b, c}
        ELSE {}

\* _moves_fork: the cells counted for more than one row
moves_fork(board, symbol) ==
    {x \in Cells :
        Cardinality({r \in DOMAIN Board_ROWS : x \in TwoFree(board, symbol, Board_ROWS[r])}) > 1}

move_fork(board, symbol) == moves_fork(board, symbol)

move_block_fork_Never(board, symbol) == {}

move_block_fork(board, symbol) ==
    LET forks == moves_fork(board, opponent_symbol(symbol))
        forceblock ==
            {x \in Cells : \E r \in DOMAIN Board_ROWS :
                /\ x \in TwoFree(board, symbol, Board_ROWS[r])
                /\ \E y \in TwoFree(board, symbol, Board_ROWS[r]) \ {x} : y \notin forks}
    IN  IF forks = {} THEN {}
        ELSE IF forceblock # {} THEN forceblock
        ELSE {CHOOSE x \in forks : \A y \in forks : x <= y}

move_center_Always(board, symbol) == {4}

move_center(board, symbol) == IF board[4] = None THEN {4} ELSE {}

move_opposite_corner(board, symbol) ==
    LET opp == IF symbol # "X" THEN "X" ELSE "O"
    IN  IF board[0] = opp /\ board[8] = None THEN {8}
        ELSE IF board[0] = None /\ board[8] = opp THEN {0}
        ELSE IF board[2] = opp /\ board[6] = None THEN {6}
        ELSE IF board[2] = None /\ board[6] = opp THEN {2}
        ELSE {}

move_free_corner(board, symbol) == {x \in {0, 2, 6, 8} : board[x] = None}

move_random_Never(board, symbol) == {}

move_random(board, symbol) == {x \in Cells : board[x] = None}

difficulty_BlockFirst(level) ==
    CASE level = 1 -> <<"random">>
      [] level = 2 -> <<"random", "winning">>
      [] level \in 3..9 -> <<"blocking", "winning", "fork", "block_fork", "center",
                             "opposite_corner", "free_corner", "random">>

\* the strategies of a difficulty level, in the order they are tried
difficulty(level) ==
    CASE level = 1 -> <<"random">>
      [] level = 2 -> <<"winning", "random">>
      [] level = 3 -> <<"winning", "blocking", "random">>
      [] level = 4 -> <<"winning", "blocking", "free_corner", "random">>
      [] level = 5 -> <<"winning", "blocking", "opposite_corner", "random">>
      [] level = 6 -> <<"winning", "blocking", "opposite_corner", "free_corner", "random">>
      [] level = 7 -> <<"winning", "blocking", "center", "opposite_corner", "free_corner",
                        "random">>
      [] level = 8 -> <<"winning", "blocking", "fork", "center", "opposite_corner",
                        "free_corner", "random">>
      [] level = 9 -> <<"winning", "blocking", "fork", "block_fork", "center",
                        "opposite_corner", "free_corner", "random">>

\* func(board) for a strategy of the list
Strategy(func, board, symbol) ==
    CASE func = "winning" -> move_winning(board, symbol)
      [] func = "blocking" -> move_blocking(board, symbol)
      [] func = "fork" -> move_fork(board, symbol)
      [] func = "block_fork" -> move_block_fork(board, symbol)
      [] func = "center" -> move_center(board, symbol)
      [] func = "opposite_corner" -> move_opposite_corner(board, symbol)
      [] func = "free_corner" -> move_free_corner(board, symbol)
      [] func = "random" -> move_random(board, symbol)

\* AiPlayer.next_move: the move of the first strategy that finds one
next_move(board, symbol, level) ==
    LET funcs == difficulty(level)
        found == {k \in DOMAIN funcs : Strategy(funcs[k], board, symbol) # {}}
    IN  IF found = {} THEN {}
        ELSE Strategy(funcs[CHOOSE k \in found : \A j \in found : k <= j], board, symbol)

\* what a call of make_move may do: the board after it and the cell
\* returned, or PlayerAbortException and the board as it was
Moved(board, symbol, move) ==
    [board |-> [board EXCEPT ![move] = symbol], move |-> move, exc |-> "none"]

Aborted(board) == [board |-> board, move |-> -1, exc |-> "PlayerAbortException"]

AiPlayer_make_move(player, board) ==
    IF next_move(board, player.symbol, player.level) = {} THEN {Aborted(board)}
    ELSE {Moved(board, player.symbol, m) : m \in next_move(board, player.symbol, player.level)}

\* ConsolePlayer.make_move: the user types the number of a free cell, after
\* any number of other inputs, or "q"
ConsolePlayer_make_move(player, board) ==
    {Moved(board, player.symbol, m) : m \in move_random(board, player.symbol)}
    \cup {Aborted(board)}

(***************************************************************************)
(* TicTacToe.  A game holds its board, its two players and the callback    *)
(* handlers in the order they were registered.  A handler is an object     *)
(* that notes each call it receives on the console.                        *)
(***************************************************************************)
TicTacToe_init(player1, player2) ==
    [board |-> Board_init, players |-> <<player1, player2>>, callbacks |-> <<>>]

get_winner_FirstPlayer(self) == IF Board_winner(self.board) = None THEN 0 ELSE 1

\* TicTacToe.get_winner: the first player holding the winning symbol, as
\* the player's position in self.players; 0 for None
get_winner(self) ==
    LET holders == {k \in DOMAIN self.players :
                       self.players[k].symbol = Board_winner(self.board)}
    IN  IF holders = {} THEN 0 ELSE CHOOSE k \in holders : \A j \in holders : k <= j

register_callback(self, callback_handler) ==
    [self EXCEPT !.callbacks = Append(@, callback_handler)]

\* the condition of the while loop of play(), which is also that of its break
LoopCondition_BoardNotFull(cells) == get_free_cells(cells) # <<>>

LoopCondition(cells) == get_free_cells(cells) # <<>> /\ Board_winner(cells) = None

\* "for cb in self.callbacks: cb.<hook>(...)": the calls, in order
Hooks_Reversed(self, hook, player, move, winner) ==
    [k \in DOMAIN self.callbacks |->
        [hook |-> hook, handler |-> self.callbacks[Len(self.callbacks) + 1 - k],
         player |-> player, move |-> move, winner |-> winner]]

Hooks(self, hook, player, move, winner) ==
    [k \in DOMAIN self.callbacks |->
        [hook |-> hook, handler |-> self.callbacks[k],
         player |-> player, move |-> move, winner |-> winner]]

make_move(player, board) ==
    IF player.kind = "ai" THEN AiPlayer_make_move(player, board)
    ELSE ConsolePlayer_make_move(player, board)

AiLevels == {8, 9}
HandlerObjects == {"h1", "h2"}

GamePlayers(symbol) ==
    {[kind |-> "ai", symbol |-> symbol, level |-> l] : l \in AiLevels}
    \cup {[kind |-> "console", symbol |-> symbol, level |-> 0]}

\* a game of two players with different symbols, one of them at least an
\* AiPlayer, is constructed
GameInit ==
    /\ \E s \in {"X", "O"} :
          \E p1 \in GamePlayers(s), p2 \in GamePlayers(opponent_symbol(s)) :
              /\ "ai" \in {p1.kind, p2.kind}
              /\ obj = TicTacToe_init(p1, p2)
    /\ pc = "idle"
    /\ args = [cycle |-> 0, plays |-> 0]
    /\ ret = <<>>
    /\ console = <<>>
    /\ exc = "none"
    /\ fs = <<>>

GameRegister ==
    /\ pc = "idle"
    /\ Len(obj.callbacks) < MaxHandlers
    /\ \E h \in HandlerObjects : obj' = register_callback(obj, h)
    /\ UNCHANGED <<fs, pc, console, exc, args, ret>>

\* play() is called, on a new game or again after it returned: the player
\* cycle starts at player1, the handlers get pre_game_hook
PlayBegin ==
    /\ pc \in {"idle", "returned"}
    /\ args.plays < MaxPlays
    /\ args' = [cycle |-> 0, plays |-> args.plays + 1]
    /\ console' = console \o Hooks(obj, "pre_game", 0, -1, 0)
    /\ pc' = "loop"
    /\ UNCHANGED <<fs, obj, exc, ret>>

\* one pass of the loop, the next player of the cycle being of this kind:
\* pre_move_hook, make_move, post_move_hook; ret notes the move and the
\* board it was made on
PlayTurn(kind) ==
    /\ pc = "loop"
    /\ LoopCondition(obj.board)
    /\ LET i == (args.cycle % 2) + 1
       IN  /\ obj.players[i].kind = kind
           /\ \E out \in make_move(obj.players[i], obj.board) :
                 IF out.exc = "none"
                 THEN /\ obj' = [obj EXCEPT !.board = out.board]
                      /\ console' = console \o Hooks(obj, "pre_move", i, -1, 0)
                                            \o Hooks(obj, "post_move", i, out.move, 0)
                      /\ ret' = Append(ret, [play |-> args.plays, player |-> i,
                                             move |-> out.move, before |-> obj.board])
                      /\ args' = [args EXCEPT !.cycle = @ + 1]
                      /\ UNCHANGED <<pc, exc>>
                 ELSE /\ console' = console \o Hooks(obj, "pre_move", i, -1, 0)
                      /\ exc' = out.exc
                      /\ pc' = "aborted"
                      /\ args' = [args EXCEPT !.cycle = @ + 1]
                      /\ UNCHANGED <<obj, ret>>
    /\ UNCHANGED fs

AiTurn == PlayTurn("ai")

ConsoleTurn == PlayTurn("console")

\* the loop is left: the handlers get post_game_hook, play() returns
PlayEnd ==
    /\ pc = "loop"
    /\ ~LoopCondition(obj.board)
    /\ console' = console \o Hooks(obj, "post_game", 0, -1, get_winner(obj))
    /\ pc' = "returned"
    /\ UNCHANGED <<fs, obj, exc, args, ret>>

GameNext == GameRegister \/ PlayBegin \/ AiTurn \/ ConsoleTurn \/ PlayEnd

SpecGame == GameInit /\ [][GameNext]_vars

\* C18: in a game played from the empty board in which a player is an
\* AiPlayer of level 9, the other player never has a completed row, and
\* when play() has returned the AI is the winner or there is none.
C18_PerfectPlayer ==
    \A i \in {1, 2} :
        (obj.players[i].kind = "ai" /\ obj.players[i].level = 9)
            => /\ Board_winner(obj.board) # obj.players[3 - i].symbol
               /\ pc = "returned" => get_winner(obj) \in {0, i}

\* a console player moved first against a level 9 AI, every cell is taken
\* and nobody has a row; one AI move was made where the opponent could fork
\* and the AI could neither win, block nor fork
C18_Witness ==
    /\ pc = "returned"
    /\ obj.players[1].kind = "console"
    /\ obj.players[2].kind = "ai" /\ obj.players[2].level = 9
    /\ get_free_cells(obj.board) = <<>>
    /\ Board_winner(obj.board) = None
    /\ \E k \in DOMAIN ret :
          /\ ret[k].player = 2
          /\ moves_winning(ret[k].before, obj.players[2].symbol) = {}
          /\ moves_winning(ret[k].before, obj.players[1].symbol) = {}
          /\ moves_fork(ret[k].before, obj.players[2].symbol) = {}
          /\ moves_fork(ret[k].before, obj.players[1].symbol) # {}

\* C19: the moves of a game started on the empty board are made by player1
\* and player2 in turn, player1 first; every move, and every abort, happens
\* on a board with a free cell and no completed row, so that a play() on a
\* finished board makes no move; when play() has returned, the board has a
\* completed row or no free cell.
C19_GameRules ==
    /\ \A k \in DOMAIN ret :
          /\ ret[k].player = 2 - (k % 2)
          /\ get_free_cells(ret[k].before) # <<>>
          /\ Board_winner(ret[k].before) = None
          /\ ret[k].play = 1
    /\ pc = "aborted"
          => get_free_cells(obj.board) # <<>> /\ Board_winner(obj.board) = None
    /\ pc = "returned"
          => get_free_cells(obj.board) = <<>> \/ Board_winner(obj.board) # None

\* play() was called again on a board with a completed row and free cells,
\* and has returned
C19_Witness ==
    /\ pc = "returned"
    /\ args.plays = 2
    /\ Board_winner(obj.board) # None
    /\ get_free_cells(obj.board) # <<>>
    /\ Len(ret) >= 5

\* the calls hook(...) of the registered handlers, in registration order
Calls(hook, player, move, winner) ==
    [k \in 1..Len(obj.callbacks) |->
        [hook |-> hook, handler |-> obj.callbacks[k],
         player |-> player, move |-> move, winner |-> winner]]

\* the calls a play() owes for the moves noted in ret: pre_game, then
\* pre_move and post_move for each move, then post_game once it returned
CallsOfPlay(p) ==
    LET moves == SelectSeq(ret, LAMBDA m : m.play = p)
    IN  Calls("pre_game", 0, -1, 0)
        \o Flatten([k \in DOMAIN moves |->
                      Calls("pre_move", moves[k].player, -1, 0)
                      \o Calls("post_move", moves[k].player, moves[k].move, 0)])
        \o IF p < args.plays \/ pc = "returned"
           THEN Calls("post_game", 0, -1, get_winner(obj))
           ELSE <<>>

HasRow(cells, symbol) ==
    \E r \in DOMAIN Board_ROWS : \A k \in 1..3 : cells[Board_ROWS[r][k]] = symbol

Marks(cells, symbol) == Cardinality({i \in Cells : cells[i] = symbol})

\* C33: in every state of a game played from the empty board by two players
\* with different symbols, at most one symbol has a completed row, the
\* numbers of "X" and "O" cells differ by at most one, and get_winner() is
\* the player who made the last move when a row is complete and None
\* otherwise.
C33_UnambiguousWinner ==
    /\ ~(HasRow(obj.board, "X") /\ HasRow(obj.board, "O"))
    /\ Marks(obj.board, "X") - Marks(obj.board, "O") \in {-1, 0, 1}
    /\ IF HasRow(obj.board, "X") \/ HasRow(obj.board, "O")
       THEN ret # <<>> /\ get_winner(obj) = ret[Len(ret)].player
       ELSE get_winner(obj) = 0

\* the second player, holding "X", completed a row with the game's sixth
\* move, and play() has returned
C33_Witness ==
    /\ pc = "returned"
    /\ Len(ret) = 6
    /\ obj.players[2].symbol = "X"
    /\ HasRow(obj.board, "X")
    /\ get_winner(obj) = 2

(***************************************************************************)
(* Board construction and cell assignment.  The constructor takes no value *)
(* or nine; board[index] = value is list assignment, so that -1 names the  *)
(* last cell and an index outside -9..8 raises IndexError.                 *)
(***************************************************************************)
Board_BOARDYMBOLS == {"X", "O", None}

\* Board.__init__: the cells made from the values given, or ValueError
Board_new(values) ==
    IF Len(values) < 1 THEN [cells |-> Board_init, exc |-> "none"]
    ELSE IF Len(values) = 9
    THEN IF \A k \in DOMAIN values : values[k] \in Board_BOARDYMBOLS
         THEN [cells |-> [i \in Cells |-> values[i + 1]], exc |-> "none"]
         ELSE [cells |-> Board_init, exc |-> "ValueError"]
    ELSE [cells |-> Board_init, exc |-> "ValueError"]

Board_setitem_Unchecked(cells, index, value) ==
    IF index \in -9..8
    THEN [cells |-> [cells EXCEPT ![(index + 9) % 9] = value], exc |-> "none"]
    ELSE [cells |-> cells, exc |-> "IndexError"]

\* Board.__setitem__(index, value)
Board_setitem(cells, index, value) ==
    IF value \in Board_BOARDYMBOLS
    THEN IF index \in -9..8
         THEN [cells |-> [cells EXCEPT ![(index + 9) % 9] = value], exc |-> "none"]
         ELSE [cells |-> cells, exc |-> "IndexError"]
    ELSE [cells |-> cells, exc |-> "ValueError"]

MaxCalls == 3      \* constructions and assignments made on one board variable

BoardValues == {"X", "O", None, "x"}
BoardIndices == {-10, -1, 0, 8, 9}
BoardArgs ==
    { <<>>, <<"X">>,
      <<"X", "O", None, None, "X", None, None, None, "O">>,
      <<"X", "O", None, None, "x", None, None, None, "O">> }

\* a variable that may come to hold a board; ret counts the calls made
BoardInit ==
    /\ obj = [made |-> FALSE, cells |-> Board_init]
    /\ args = [op |-> "none", values |-> <<>>, index |-> 0, value |-> None]
    /\ ret = [calls |-> 0, before |-> [made |-> FALSE, cells |-> Board_init]]
    /\ pc = "board"
    /\ exc = "none"
    /\ console = <<>>
    /\ fs = <<>>

\* b = Board(...): on ValueError the variable keeps what it held
BoardConstruct ==
    /\ pc = "board"
    /\ ret.calls < MaxCalls
    /\ \E values \in BoardArgs :
          \E new \in {Board_new(values)} :
              /\ obj' = IF new.exc = "none" THEN [made |-> TRUE, cells |-> new.cells] ELSE obj
              /\ exc' = new.exc
              /\ args' = [op |-> "construct", values |-> values, index |-> 0, value |-> None]
    /\ ret' = [calls |-> ret.calls + 1, before |-> obj]
    /\ UNCHANGED <<fs, pc, console>>

\* b[index] = value
BoardAssign ==
    /\ pc = "board"
    /\ obj.made
    /\ ret.calls < MaxCalls
    /\ \E index \in BoardIndices, value \in BoardValues :
          \E new \in {Board_setitem(obj.cells, index, value)} :
              /\ obj' = [obj EXCEPT !.cells = new.cells]
              /\ exc' = new.exc
              /\ args' = [op |-> "assign", values |-> <<>>, index |-> index, value |-> value]
    /\ ret' = [calls |-> ret.calls + 1, before |-> obj]
    /\ UNCHANGED <<fs, pc, console>>

BoardNext == BoardConstruct \/ BoardAssign

SpecBoard == BoardInit /\ [][BoardNext]_vars

\* C21: every cell of a board holds "X", "O" or None; a construction with
\* another value raises ValueError and gives no board; an assignment of
\* another value raises ValueError and leaves the nine cells as they were.
C21_CellInvariant ==
    /\ obj.made => \A i \in 0..8 : obj.cells[i] \in {"X", "O", "None"}
    /\ (args.op = "construct"
        /\ \E k \in DOMAIN args.values : args.values[k] \notin {"X", "O", "None"})
          => exc = "ValueError" /\ obj = ret.before
    /\ (args.op = "assign" /\ args.value \notin {"X", "O", "None"})
          => exc = "ValueError" /\ obj.cells = ret.before.cells

\* an assignment of "x" to a cell of a board that holds marks was rejected
C21_Witness ==
    /\ args.op = "assign" /\ args.value = "x" /\ args.index \in 0..8
    /\ exc = "ValueError"
    /\ obj.cells # Board_init
    /\ obj.cells = ret.before.cells

(***************************************************************************)
(* AiPlayer.next_move as a function of the board, the player's symbol and  *)
(* its level, asked on every board that holds at most MaxMarks marks.      *)
(***************************************************************************)
MaxMarks == 4      \* marks on a board that next_move is asked about

AiBoards ==
    {b \in [Cells -> {"X", "O", None}] : Cardinality({i \in Cells : b[i] # None}) <= MaxMarks}

\* obj is the player, args the board; ret holds the cell returned (-1: None)
AiInit ==
    /\ \E symbol \in {"X", "O"}, level \in 1..9 :
          obj = [kind |-> "ai", symbol |-> symbol, level |-> level]
    /\ args \in AiBoards
    /\ ret = [move |-> -1]
    /\ pc = "asked"
    /\ exc = "none"
    /\ console = <<>>
    /\ fs = <<>>

\* move = player.next_move(board)
AiNextMove ==
    /\ pc = "asked"
    /\ \E moves \in {next_move(args, obj.symbol, obj.level)} :
          IF moves = {} THEN ret' = [move |-> -1]
          ELSE \E m \in moves : ret' = [move |-> m]
    /\ pc' = "answered"
    /\ UNCHANGED <<fs, obj, console, exc, args>>

AiNext == AiNextMove

SpecAi == AiInit /\ [][AiNext]_vars

\* the free cells that complete a row of symbol
Completing(board, symbol) ==
    {x \in Cells : /\ board[x] = None
                   /\ \E r \in DOMAIN Board_ROWS :
                         /\ \E k \in 1..3 : Board_ROWS[r][k] = x
                         /\ \A k \in 1..3 : Board_ROWS[r][k] # x => board[Board_ROWS[r][k]] = symbol}

\* the ranks (1 WIN .. 8 RANDOM) of the strategies a level uses
LevelRanks(level) ==
    CASE level = 1 -> {8}
      [] level = 2 -> {1, 8}
      [] level = 3 -> {1, 2, 8}
      [] level = 4 -> {1, 2, 7, 8}
      [] level = 5 -> {1, 2, 6, 8}
      [] level = 6 -> {1, 2, 6, 7, 8}
      [] level = 7 -> {1, 2, 5, 6, 7, 8}
      [] level = 8 -> {1, 2, 3, 5, 6, 7, 8}
      [] level = 9 -> {1, 2, 3, 4, 5, 6, 7, 8}

RankMoves(rank, board, symbol) ==
    CASE rank = 1 -> Completing(board, symbol)
      [] rank = 2 -> Completing(board, IF symbol = "X" THEN "O" ELSE "X")
      [] rank = 3 -> move_fork(board, symbol)
      [] rank = 4 -> move_block_fork(board, symbol)
      [] rank = 5 -> move_center(board, symbol)
      [] rank = 6 -> move_opposite_corner(board, symbol)
      [] rank = 7 -> move_free_corner(board, symbol)
      [] rank = 8 -> {x \in Cells : board[x] = None}

Yielding(board, symbol, level) ==
    {rank \in LevelRanks(level) : RankMoves(rank, board, symbol) # {}}

\* C22: on a board with a free cell, next_move returns a free cell that is a
\* move of the highest-ranked strategy of the level that yields one; at a
\* level >= 2 it completes the player's own row when it can, and at a level
\* >= 3 it otherwise takes a cell that would complete the opponent's row.
C22_MovePriority ==
    (pc = "answered" /\ \E x \in Cells : args[x] = None) =>
        /\ ret.move \in Cells /\ args[ret.move] = None
        /\ \E best \in Yielding(args, obj.symbol, obj.level) :
              /\ \A rank \in Yielding(args, obj.symbol, obj.level) : best <= rank
              /\ ret.move \in RankMoves(best, args, obj.symbol)
        /\ (obj.level >= 2 /\ Completing(args, obj.symbol) # {})
              => ret.move \in Completing(args, obj.symbol)
        /\ (obj.level >= 3 /\ Completing(args, obj.symbol) = {}
            /\ Completing(args, opponent_symbol(obj.symbol)) # {})
              => ret.move \in Completing(args, opponent_symbol(obj.symbol))

\* a level 3 player that cannot win took the cell that completes the
\* opponent's row, although the centre and corners were free
C22_Witness ==
    /\ pc = "answered" /\ obj.level = 3 /\ obj.symbol = "X"
    /\ Completing(args, "X") = {}
    /\ Completing(args, "O") = {7}
    /\ args[4] = None /\ args[0] = None
    /\ ret.move = 7

(***************************************************************************)
(* The command line.  parse_arguments accepts a HASHTYPE out of            *)
(* valid_hash_functions only (argparse ends the process with status 2      *)
(* otherwise) and returns a namespace whose attributes are the "dest"      *)
(* names of the options; hashtool() reads attributes of that namespace,    *)
(* constructs the processor and runs it on each directory.  An exception   *)
(* that leaves hashtool() ends the process with status 1, a return with    *)
(* status 0.                                                               *)
(***************************************************************************)
Sha224 == <<"s", "h", "a", "2", "2", "4">>
Sha256 == <<"s", "h", "a", "2", "5", "6">>
Sha384 == <<"s", "h", "a", "3", "8", "4">>
Sha512 == <<"s", "h", "a", "5", "1", "2">>
Bogus == <<"b", "o", "g", "u", "s">>

valid_hash_functions == {Md5, Sha1, Sha224, Sha256, Sha384, Sha512, Crc32}

\* argv: the subcommand, the HASHTYPE, the -f globs and the directories
parse_arguments(argv) ==
    IF argv.hashtype \notin valid_hash_functions
    THEN [exc |-> "SystemExit", ns |-> [operation |-> argv.operation]]
    ELSE [exc |-> "none",
          ns |-> [operation |-> argv.operation, verbose |-> FALSE, debug |-> FALSE,
                  quiet |-> FALSE, hashtype |-> argv.hashtype, recursive |-> FALSE,
                  filename |-> argv.filename, overwrite_globs |-> <<>>, backup |-> TRUE,
                  include_globs |-> <<>>, exclude_globs |-> <<>>,
                  directories |-> argv.directories]]

\* the attributes hashtool() reads for the constructor call, in order
AttributesRead(operation) ==
    CASE operation = "generate" ->
            <<"hash_function", "recursive", "basedir", "filename", "overwrite", "backup",
              "include", "exclude">>
      [] operation = "verify" ->
            <<"hash_function", "recursive", "filename", "include", "exclude">>
      [] operation = "unchecked" -> <<"recursive", "filename", "include", "exclude">>

\* the keywords of the constructor call and the keyword parameters of the
\* constructor called
Keywords(operation) ==
    CASE operation = "generate" ->
            {"recursive", "basedir", "filename", "overwrite", "backup", "include", "exclude",
             "console"}
      [] operation = "verify" -> {"recursive", "filename", "include", "exclude", "console"}
      [] operation = "unchecked" -> {"recursive", "filename", "include", "exclude", "console"}

Parameters(operation) ==
    CASE operation = "generate" ->
            {"recursive", "basedir_only", "filename", "overwrite", "backup", "include",
             "exclude", "console"}
      [] operation = "verify" -> {"recursive", "filenames", "include", "exclude", "console"}
      [] operation = "unchecked" -> {"filenames", "recursive", "include", "exclude", "console"}

\* processor.process_directory(directory)
Processor_process_directory(ns, tree, directory) ==
    CASE ns.operation = "generate" ->
            Only({ [fs |-> st.fs, console |-> st.console, exc |-> st.exc] :
                   st \in {HashGenerator_process_directory(
                              HashGenerator_init(ns.hash_function, ns.recursive, ns.basedir,
                                                 ns.filename, ns.overwrite, ns.backup,
                                                 ns.include, ns.exclude),
                              tree, directory, 1)} })
      [] ns.operation = "verify" ->
            HashVerifier_process_directory(
                HashVerifier_init(ns.hash_function, ns.recursive, ns.filename,
                                  ns.include, ns.exclude),
                tree, directory)
      [] ns.operation = "unchecked" ->
            Unchecked_run(ns.filename, ns.recursive, ns.include, ns.exclude, ns.filename,
                          tree, directory)

\* for directory in args.directories: processor.process_directory(directory)
RECURSIVE ProcessAll(_, _, _)
ProcessAll(ns, st, directories) ==
    IF directories = <<>> \/ st.exc # "none" THEN st
    ELSE Only({ ProcessAll(ns, [fs |-> one.fs, console |-> st.console \o one.console,
                                exc |-> one.exc], Tail(directories)) :
                one \in {Processor_process_directory(ns, st.fs, Head(directories))} })

Exit(tree, out, exception) ==
    [fs |-> tree, console |-> out, exc |-> exception,
     status |-> IF exception = "none" THEN 0 ELSE IF exception = "SystemExit" THEN 2 ELSE 1]

\* hashtool(), run as the main program
hashtool(argv, tree) ==
    LET parsed == parse_arguments(argv)
        ns == parsed.ns
        reads == AttributesRead(ns.operation)
    IN  IF parsed.exc # "none" THEN Exit(tree, <<>>, parsed.exc)
        ELSE IF \E k \in DOMAIN reads : reads[k] \notin DOMAIN ns
        THEN Exit(tree, <<>>, "AttributeError")
        ELSE IF ~(Keywords(ns.operation) \subseteq Parameters(ns.operation))
        THEN Exit(tree, <<>>, "TypeError")
        ELSE Only({ Exit(st.fs, st.console, st.exc) :
                    st \in {ProcessAll(ns, VerState(tree), ns.directories)} })

CliHashinfo == SeqUpTo({NameA, NameB} \X {EmptyDigest(Md5), Md5OfX}, MaxEntries)

\* a directory r with data files and the manifest c.md5, and a command line
CliInit ==
    /\ \E t \in VerifyTrees, hi \in CliHashinfo :
          /\ fs = Append(t, File(NameC, ChecksumText(Now(1, 0), hi)))
          /\ \E operation \in {"generate", "verify", "unchecked"}, ht \in {Md5, Bogus} :
                args = [operation |-> operation, hashtype |-> ht,
                        filename |-> IF operation = "unchecked" THEN <<NameC>> ELSE <<>>,
                        directories |-> <<RootName>>, hashinfo |-> hi, before |-> t]
    /\ obj = <<>>
    /\ ret = [status |-> -1]
    /\ pc = "shell"
    /\ console = <<>>
    /\ exc = "none"

\* python hashtool.py <operation> <hashtype> r
CliRun ==
    /\ pc = "shell"
    /\ \E st \in {hashtool(args, fs)} :
          /\ fs' = st.fs
          /\ console' = st.console
          /\ exc' = st.exc
          /\ ret' = [status |-> st.status]
    /\ pc' = "exited"
    /\ UNCHANGED <<obj, args>>

CliNext == CliRun

SpecCli == CliInit /\ [][CliNext]_vars

\* an entry of the manifest whose file is gone or holds another text
CliFinding ==
    \E i \in DOMAIN args.hashinfo :
        \/ Index(args.before, args.hashinfo[i][1]) = 0
        \/ args.hashinfo[i][2]
              # TrueDigest(args.before[Index(args.before, args.hashinfo[i][1])].data)

\* C23 as stated: a verify run ends with a non-zero exit status when an
\* entry of a manifest is MISSING or INVALID, and with status zero when no
\* entry is.
C23_ExitStatus ==
    (pc = "exited" /\ args.operation = "verify" /\ args.hashtype = Md5)
        => (ret.status # 0 <=> CliFinding)

(***************************************************************************)
(* A generator or a verifier constructed with the digest name "bogus",     *)
(* which neither hashlib nor the crc32 branch of _hash_factory knows.  The *)
(* constructors store the name; _hash_factory is first called when a       *)
(* Filehash is made for a file.                                            *)
(***************************************************************************)
AlgoInit ==
    /\ \E t \in VerifyTrees, hi \in SeqUpTo({NameA, NameB} \X {EmptyDigest(Md5)}, MaxEntries), m \in BOOLEAN :
          /\ fs = IF m THEN Append(t, File(NameC, ChecksumText(Now(1, 0), hi))) ELSE t
          /\ args = [root |-> RootName, hashinfo |-> IF m THEN hi ELSE <<>>, manifest |-> m,
                     before |-> IF m THEN Append(t, File(NameC, ChecksumText(Now(1, 0), hi)))
                                ELSE t]
    /\ \E ex \in {<<>>, << <<"*">> >>} : obj = [hashtype |-> Bogus, exclude |-> ex]
    /\ pc = "start"
    /\ console = <<>>
    /\ exc = "none"
    /\ ret = <<>>

\* HashGenerator("bogus", ...).process_directory(root)
AlgoGenerate ==
    /\ pc = "start"
    /\ \E bo \in BOOLEAN :
          \E st \in {HashGenerator_process_directory(
                        HashGenerator_init(obj.hashtype, FALSE, bo, <<>>, <<>>, TRUE, <<>>,
                                           obj.exclude),
                        fs, args.root, 1)} :
              /\ fs' = st.fs
              /\ console' = st.console
              /\ exc' = st.exc
    /\ pc' = "generated"
    /\ UNCHANGED <<obj, args, ret>>

\* HashVerifier("bogus", filenames=["c.md5"], ...).process_directory(root)
AlgoVerify ==
    /\ pc = "start"
    /\ \E st \in {HashVerifier_process_directory(
                     HashVerifier_init(obj.hashtype, FALSE, <<NameC>>, <<>>, obj.exclude),
                     fs, args.root)} :
          /\ fs' = st.fs
          /\ console' = st.console
          /\ exc' = st.exc
    /\ pc' = "verified"
    /\ UNCHANGED <<obj, args, ret>>

AlgoNext == AlgoGenerate \/ AlgoVerify

SpecAlgo == AlgoInit /\ [][AlgoNext]_vars

\* C24 as stated: with an unrecognized digest name, generating and verifying
\* end with an error, whatever the directory holds, and before any I/O: no
\* manifest was read (the verifier announces each read with "Verifying"),
\* no digest was computed and the files are as they were.
C24_UnsupportedAlgorithm ==
    pc \in {"generated", "verified"} =>
        /\ exc # "none"
        /\ Count("Verifying") = 0
        /\ Count("hash") = 0
        /\ fs = args.before

(***************************************************************************)
(* A generator run on a tree in which a name among the files may be a      *)
(* symbolic link without target: os.walk lists it with the files, and      *)
(* open() on it fails with FileNotFoundError.                              *)
(***************************************************************************)
IoEntries(name) == Optional({File(name, <<>>), Link(name)})

IoTrees ==
    { Flatten(<<a, b, s>>) :
        a \in IoEntries(NameA), b \in IoEntries(NameB),
        s \in Optional({Dir(NameS, x) : x \in IoEntries(NameA)}) }

IoInit ==
    /\ fs \in IoTrees
    /\ \E rec \in BOOLEAN, bo \in BOOLEAN :
          obj = HashGenerator_init(Md5, rec, bo, <<>>, <<>>, TRUE, <<>>, <<>>)
    /\ args = [root |-> RootName, before |-> fs]
    /\ pc = "start"
    /\ console = <<>>
    /\ exc = "none"
    /\ ret = <<>>

IoGenerate ==
    /\ pc = "start"
    /\ \E st \in {HashGenerator_process_directory(obj, fs, args.root, 1)} :
          /\ fs' = st.fs
          /\ console' = st.console
          /\ exc' = st.exc
    /\ pc' = "generated"
    /\ UNCHANGED <<obj, args, ret>>

IoNext == IoGenerate

SpecIo == IoInit /\ [][IoNext]_vars

\* the links among the entries of a directory the run is to hash
LinksIn(dir) ==
    {path_join(dir, e.name) : e \in {x \in Range(Resolve(args.before, dir).data) : x.kind = "link"}}

RootFiles == {e \in Range(args.before) : e.kind = "file"}

\* C25 as stated: when a file to hash cannot be opened, process_directory
\* stops with that error; no digest is reported for the file; with
\* basedir_only no manifest is written; a failure in the subdirectory leaves
\* the manifest written for the root before it in place and writes none in
\* the subdirectory.
C25_IoFailureAborts ==
    (pc = "generated"
     /\ LinksIn(RootName) \cup (IF obj.recursive /\ path_isdir(args.before, SubDir)
                                THEN LinksIn(SubDir) ELSE {}) # {})
        => /\ exc = "FileNotFoundError"
           /\ Said("hash") \cap (LinksIn(RootName) \cup LinksIn(SubDir)) = {}
           /\ obj.basedir_only => fs = args.before
           /\ LinksIn(RootName) # {} => fs = args.before
           /\ (LinksIn(RootName) = {} /\ RootFiles # {} /\ ~obj.basedir_only)
                 => /\ path_isfile(fs, path_join(RootName, ChecksumsName))
                    /\ ~path_exists(fs, path_join(SubDir, ChecksumsName))

(***************************************************************************)
(* The unchecked finder on a tree whose root manifest may list the file a  *)
(* of the subdirectory s by the path "s/a".                                *)
(***************************************************************************)
NameSA == path_join(NameS, NameA)

KnownTrees ==
    { Flatten(<<a, <<Dir(NameS, Flatten(<<sa, se>>))>> >>) :
        a \in Optional({File(NameA, <<>>)}),
        sa \in Optional({File(NameA, <<>>)}),
        se \in Optional({File(NameE, <<>>)}) }

KnownInit ==
    /\ \E t \in KnownTrees,
          hi \in SeqUpTo({NameA, NameSA} \X {EmptyDigest(Md5)}, MaxEntries) :
          /\ fs = Append(t, File(NameC, ChecksumText(Now(1, 0), hi)))
          /\ args = [root |-> RootName, hashinfo |-> hi,
                     filenames |-> << <<"*", ".", "m", "d", "5">> >>]
    /\ obj \in [recursive : BOOLEAN, given : BOOLEAN, include : {<<>>}, exclude : {<<>>}]
    /\ pc = "start"
    /\ console = <<>>
    /\ exc = "none"
    /\ ret = <<>>

\* UncheckedCrawler(filenames=["*.md5"], ...).process_directory(root)
KnownRun ==
    /\ pc = "start"
    /\ \E st \in {Unchecked_run(args.filenames, obj.recursive, obj.include, obj.exclude,
                                obj.given, fs, args.root)} :
           /\ fs' = st.fs
           /\ console' = st.console
           /\ exc' = st.exc
    /\ pc' = "done"
    /\ UNCHANGED <<obj, args, ret>>

KnownNext == KnownRun

SpecKnown == KnownInit /\ [][KnownNext]_vars

RootLists(name) == \E i \in DOMAIN args.hashinfo : args.hashinfo[i][1] = name

\* C28 as stated: in a recursive walk the paths the root manifest refers to
\* stay known when the subdirectory is visited: the walk reaches s, and the
\* file s/a that the root manifest lists as "s/a" is not reported UNCHECKED
\* there.
C28_CumulativeKnown ==
    (pc = "done" /\ obj.recursive /\ RootLists(NameSA)
     /\ path_isfile(fs, path_join(SubDir, NameA)))
        => /\ exc = "none"
           /\ SubDir \in Said("Processing")
           /\ path_join(SubDir, NameA) \notin Said("UNCHECKED")
           /\ (path_isfile(fs, path_join(RootName, NameA)) => RootLists(NameA))
                 => NameA \notin Said("UNCHECKED")

(***************************************************************************)
(* The file tree across a run of the verifier and of the unchecked finder, *)
(* on the trees of CrawlInit.  UncheckedCrawler.process_directory is run   *)
(* on an object that was given its fields, since the constructor returns   *)
(* none.                                                                   *)
(***************************************************************************)
ReadOnlyVerify ==
    /\ pc = "start"
    /\ \E st \in {HashVerifier_process_directory(obj, fs, args.root)} :
           /\ fs' = st.fs
           /\ console' = st.console
           /\ exc' = st.exc
    /\ pc' = "verified"
    /\ ret' = [ret EXCEPT !.before = fs]
    /\ UNCHANGED <<obj, args>>

ReadOnlyUnchecked ==
    /\ pc = "start"
    /\ \E given \in BOOLEAN :
          \E st \in {UncheckedCrawler_process_directory(
                        [filenames |-> obj.filenames, recursive |-> obj.recursive,
                         include |-> obj.include, exclude |-> obj.exclude, given |-> given],
                        fs, args.root)} :
              /\ fs' = st.fs
              /\ console' = st.console
              /\ exc' = st.exc
    /\ pc' = "searched"
    /\ ret' = [ret EXCEPT !.before = fs]
    /\ UNCHANGED <<obj, args>>

ReadOnlyNext == ReadOnlyVerify \/ ReadOnlyUnchecked

SpecReadOnly == CrawlInit /\ [][ReadOnlyNext]_vars

\* C29: after HashVerifier.process_directory and after
\* UncheckedCrawler.process_directory the file tree is the tree before the
\* call: nothing was created, renamed, deleted or changed, whatever was
\* found and however the call ended.
C29_ReadOnly ==
    pc \in {"verified", "searched"} => fs = ret.before

\* a verifier run that found a missing file and reported its manifest as
\* failed, in a tree with a subdirectory
C29_Witness ==
    /\ pc = "verified"
    /\ Count("MISSING") >= 1 /\ Count("FILE ERROR") >= 1
    /\ path_isdir(fs, SubDir)
    /\ fs = ret.before

(***************************************************************************)
(* Reading a manifest of arbitrary lines.  The file is opened in text mode *)
(* with the encoding of the locale (open(filename, 'r')); a byte that this *)
(* encoding cannot decode raises UnicodeDecodeError when the loop reads    *)
(* the line (UTF-8 and ASCII refuse the byte 0xE9 of a Latin-1 file name,  *)
(* Latin-1 decodes every byte).  BadByte stands for such a byte; strict    *)
(* says whether the encoding refuses it.                                   *)
(***************************************************************************)
BadByte == "0xE9"

Decodable(text) == \A i \in DOMAIN text : text[i] # BadByte

read_checksum_file_in(tree, filename, strict) ==
    IF path_isfile(tree, filename) /\ strict /\ ~Decodable(Resolve(tree, filename).data)
    THEN [value |-> <<>>, exc |-> "UnicodeDecodeError"]
    ELSE read_checksum_file(tree, filename)

RawLines ==
    { <<>>, <<"#", "c">>, <<" ", "#", "h", " ", "*", "p">>, <<"h">>, <<"h", " ", "*">>,
      <<"h", " ", "p">>, <<"*", "p">>, <<"h", " ", "*", "p">>,
      <<" ", "g", " ", "*", "q", " ", "*", "r", "\t">>, <<"h", " ", "*", "p", BadByte>> }

ReadInit ==
    /\ \E ls \in SeqUpTo(RawLines, MaxEntries) :
          /\ args = [lines |-> ls, filename |-> path_join(RootName, NameC)]
          /\ fs = <<File(NameC, Flatten([i \in DOMAIN ls |-> ls[i] \o Linesep]))>>
    /\ pc = "written"
    /\ obj = [strict |-> FALSE]
    /\ console = <<>>
    /\ exc = "none"
    /\ ret = <<>>

\* hashinfo = self._read_checksum_file(filename)
ReadManifest ==
    /\ pc = "written"
    /\ \E strict \in BOOLEAN :
          \E rd \in {read_checksum_file_in(fs, args.filename, strict)} :
              /\ ret' = rd.value
              /\ exc' = rd.exc
              /\ obj' = [strict |-> strict]
    /\ pc' = "read"
    /\ UNCHANGED <<fs, console, args>>

ReadNext == ReadManifest

SpecRead == ReadInit /\ [][ReadNext]_vars

\* what a line is to contribute: nothing for a comment and for a line
\* without " *" or with nothing before or after its first " *", else the
\* pair of what follows it and what precedes it
EntryOf(raw) ==
    LET line == Strip(raw)
        cuts == {i \in 1..(Len(line) - 1) : line[i] = " " /\ line[i + 1] = "*"}
        cut == CHOOSE i \in cuts : \A j \in cuts : i <= j
    IN  IF line = <<>> \/ line[1] = "#" \/ cuts = {} THEN <<>>
        ELSE IF cut = 1 \/ cut + 1 = Len(line) THEN <<>>
        ELSE << <<SubSeq(line, cut + 2, Len(line)), SubSeq(line, 1, cut - 1)>> >>

LineContent ==
    /\ exc = "none"
    /\ ret = Flatten([k \in DOMAIN args.lines |-> EntryOf(args.lines[k])])
    /\ \A k \in DOMAIN ret : ret[k][1] # <<>> /\ ret[k][2] # <<>>

MaxMoveMarks == 3      \* marks on a board that is handed to make_move

FullBoards ==
    { [i \in Cells |-> <<"X", "O", "X", "X", "O", "O", "O", "X", "X">>[i + 1]],
      [i \in Cells |-> <<"X", "X", "X", "O", "O", "X", "O", "X", "O">>[i + 1]] }

MoveBoards ==
    {b \in [Cells -> {"X", "O", None}] :
        Cardinality({i \in Cells : b[i] # None}) <= MaxMoveMarks} \cup FullBoards

MovePlayers ==
    {[kind |-> "ai", symbol |-> s, level |-> l] : s \in {"X", "O"}, l \in 1..9}
    \cup {[kind |-> "console", symbol |-> s, level |-> 0] : s \in {"X", "O"}}

\* obj is the player, args the board before the call, ret what the call left
MoveInit ==
    /\ obj \in MovePlayers
    /\ args \in MoveBoards
    /\ ret = [board |-> args, move |-> -1, exc |-> "none"]
    /\ pc = "turn"
    /\ exc = "none"
    /\ console = <<>>
    /\ fs = <<>>

\* move = player.make_move(board), the player being of this kind
MoveCall(kind) ==
    /\ pc = "turn"
    /\ obj.kind = kind
    /\ \E out \in make_move(obj, args) :
          /\ ret' = out
          /\ exc' = out.exc
    /\ pc' = "moved"
    /\ UNCHANGED <<fs, obj, console, args>>

MoveAi == MoveCall("ai")

MoveConsole == MoveCall("console")

MoveNext == MoveAi \/ MoveConsole

SpecMove == MoveInit /\ [][MoveNext]_vars

\* C31: a make_move that returns has set exactly one cell that was free to
\* the player's symbol, has left the other eight cells as they were and
\* returns that cell; one that raises PlayerAbortException has left the
\* board as it was, and an AiPlayer raises it only on a board without a
\* free cell.
C31_OneFreeCell ==
    pc = "moved" =>
        IF exc = "none"
        THEN /\ ret.move \in 0..8
             /\ args[ret.move] = "None"
             /\ ret.board[ret.move] = obj.symbol
             /\ \A i \in 0..8 : i # ret.move => ret.board[i] = args[i]
        ELSE /\ exc = "PlayerAbortException"
             /\ ret.board = args
             /\ obj.kind = "ai" => \A i \in 0..8 : args[i] # "None"

\* a level 9 player that could neither win, block nor fork took a cell that
\* keeps the opponent from forking, on a board whose centre was taken
C31_Witness ==
    /\ pc = "moved" /\ exc = "none"
    /\ obj.kind = "ai" /\ obj.level = 9
    /\ args[4] # None
    /\ moves_winning(args, "X") = {} /\ moves_winning(args, "O") = {}
    /\ moves_fork(args, obj.symbol) = {}
    /\ moves_fork(args, opponent_symbol(obj.symbol)) # {}
    /\ ret.board[ret.move] = obj.symbol

(***************************************************************************)
(* A game between two AiPlayers of any levels: play() is called once on    *)
(* the new game, which has one callback handler.  args counts the passes   *)
(* of the loop; the console holds the handler's pre_game_hook and          *)
(* post_game_hook calls.                                                   *)
(***************************************************************************)
\* the levels of the two players: random moves only, the default level and
\* the level that has every strategy
AiGameLevels == {1, 6, 9}

AiGame(levels) ==
    /\ \E s \in {"X", "O"}, l1 \in levels, l2 \in levels :
          obj = register_callback(
                    TicTacToe_init([kind |-> "ai", symbol |-> s, level |-> l1],
                                   [kind |-> "ai", symbol |-> opponent_symbol(s),
                                    level |-> l2]),
                    "h1")
    /\ pc = "idle"
    /\ args = [cycle |-> 0, plays |-> 0]
    /\ ret = <<>>
    /\ console = <<>>
    /\ exc = "none"
    /\ fs = <<>>

AiGameInit == AiGame(AiGameLevels)

AiGameBegin ==
    /\ pc = "idle"
    /\ args' = [cycle |-> 0, plays |-> 1]
    /\ console' = console \o Hooks(obj, "pre_game", 0, -1, 0)
    /\ pc' = "loop"
    /\ UNCHANGED <<fs, obj, exc, ret>>

\* one pass of the loop: make_move of the next player of the cycle
AiGameTurn ==
    /\ pc = "loop"
    /\ LoopCondition(obj.board)
    /\ \E out \in make_move(obj.players[(args.cycle % 2) + 1], obj.board) :
          IF out.exc = "none"
          THEN /\ obj' = [obj EXCEPT !.board = out.board]
               /\ UNCHANGED <<pc, exc>>
          ELSE /\ exc' = out.exc
               /\ pc' = "aborted"
               /\ UNCHANGED obj
    /\ args' = [args EXCEPT !.cycle = @ + 1]
    /\ UNCHANGED <<fs, console, ret>>

AiGameEnd ==
    /\ pc = "loop"
    /\ ~LoopCondition(obj.board)
    /\ console' = console \o Hooks(obj, "post_game", 0, -1, get_winner(obj))
    /\ pc' = "returned"
    /\ UNCHANGED <<fs, obj, exc, args, ret>>

AiGameNext == AiGameBegin \/ AiGameTurn \/ AiGameEnd

SpecAiGame == AiGameInit /\ [][AiGameNext]_vars

\* play() runs on: a call that was made goes on until it returns or raises
SpecAiGameLive == SpecAiGame /\ WF_vars(AiGameNext)

\* the same game for every pair of levels
SpecAiGameAll == AiGame(1..9) /\ [][AiGameNext]_vars

\* no more than nine passes, no exception, and a step to take as long as
\* play() has not returned
AiGameProgress ==
    /\ args.cycle <= 9
    /\ exc = "none"
    /\ pc \in {"idle", "loop"} => ENABLED AiGameNext
    /\ pc = "returned" => Len(console) = 2 /\ console[2].hook = "post_game"

\* C32: a play() between two AiPlayers returns, after no more than nine
\* moves, without a PlayerAbortException and with post_game_hook called.
C32_Termination ==
    <>(/\ pc = "returned"
       /\ args.cycle <= 9
       /\ exc = "none"
       /\ Len(console) = 2
       /\ console[2].hook = "post_game")

\* a game between a level 1 and a level 9 player has returned after nine
\* moves without a winner
C32_Witness ==
    /\ pc = "returned"
    /\ obj.players[1].level = 1 /\ obj.players[2].level = 9
    /\ args.cycle = 9
    /\ get_winner(obj) = 0
    /\ Len(console) = 2

(***************************************************************************)
(* One crawler object, several roots.  A HashVerifier or a HashGenerator   *)
(* is constructed once and its process_directory is then called on one     *)
(* root after another, on the trees of CrawlInit.  tree_hashes, dir_hashes *)
(* and the two filters are names local to a call, and no call assigns an   *)
(* attribute of self: Crawler_after is the object as a call leaves it.     *)
(* A caller that catches an exception may go on to the next root.  An      *)
(* UncheckedCrawler is not among them, as none can be constructed.         *)
(***************************************************************************)
MaxRoots == 3      \* calls of process_directory on one crawler object

Crawler_after_Excluding(self, st) ==
    IF st.console # <<>> THEN [self EXCEPT !.exclude = << <<"*">> >>] ELSE self

Crawler_after(self, st) == self

Roots == {RootName, SubDir}

RootsInit ==
    /\ \E a \in Optional({File(NameA, <<>>)}),
          b \in Optional({File(NameB, <<>>)}),
          s \in Optional({Dir(NameS, l) : l \in CrawlSubListings}),
          hi \in SeqUpTo({NameA, NameB} \X {EmptyDigest(Md5)}, MaxEntries) :
          fs = Flatten(<<a, b, <<File(NameC, ChecksumText(Now(1, 0), hi))>>, s>>)
    /\ \E rec \in BOOLEAN, ex \in {<<>>, << NameB >>} :
          \/ /\ obj = HashVerifier_init(Md5, rec, <<>>, <<>>, ex)
             /\ args = [kind |-> "verifier", fresh |-> obj, first |-> fs, calls |-> 0]
          \/ \E bo \in BOOLEAN :
               /\ obj = HashGenerator_init(Md5, rec, bo, <<>>, <<>>, TRUE, <<>>, ex)
               /\ args = [kind |-> "generator", fresh |-> obj, first |-> fs, calls |-> 0]
    /\ pc = "start"
    /\ console = <<>>
    /\ exc = "none"
    /\ ret = [root |-> <<>>]

\* the outcome of one call: the tree it leaves, what it reported, how it ended
Outcome(st) == [fs |-> st.fs, console |-> st.console, exc |-> st.exc]

RootsCall(st, root) ==
    /\ fs' = st.fs
    /\ console' = st.console
    /\ exc' = st.exc
    /\ obj' = Crawler_after(obj, st)
    /\ ret' = [root |-> root]
    /\ args' = [args EXCEPT !.calls = @ + 1]
    /\ pc' = "called"

\* verifier.process_directory(root)
RootsVerify ==
    /\ args.kind = "verifier"
    /\ args.calls < MaxRoots
    /\ \E root \in Roots :
          \E st \in {HashVerifier_process_directory(obj, fs, root)} : RootsCall(st, root)

\* generator.process_directory(root)
RootsGenerate ==
    /\ args.kind = "generator"
    /\ args.calls < MaxRoots
    /\ \E root \in Roots :
          \E st \in {HashGenerator_process_directory(obj, fs, root, 0)} : RootsCall(st, root)

RootsNext == RootsVerify \/ RootsGenerate

SpecRoots == RootsInit /\ [][RootsNext]_vars

\* the same root processed alone by a crawler fresh from the constructor
Alone(root) ==
    IF args.kind = "verifier"
    THEN Outcome(HashVerifier_process_directory(args.fresh, args.first, root))
    ELSE Outcome(HashGenerator_process_directory(args.fresh, args.first, root, 0))

HashGenerator_defaults ==
    [recursive |-> FALSE, basedir_only |-> FALSE, filename |-> <<>>,
     overwrite |-> <<>>, backup |-> FALSE, include |-> <<>>, exclude |-> <<>>]

\* HashGenerator(hashtype, **kw)
HashGenerator_new(hashtype, kw) ==
    LET v == [k \in DOMAIN HashGenerator_defaults |->
                 IF k \in DOMAIN kw THEN kw[k] ELSE HashGenerator_defaults[k]]
    IN  HashGenerator_init(hashtype, v.recursive, v.basedir_only, v.filename,
                           v.overwrite, v.backup, v.include, v.exclude)

\* the keyword arguments of a construction: any of overwrite, filename and
\* backup
DefaultKeywords ==
    { [k \in ks |-> CASE k = "overwrite" -> ov [] k = "filename" -> fn [] k = "backup" -> bk] :
        ks \in SUBSET {"overwrite", "filename", "backup"},
        ov \in SeqUpTo(WriteGlobs, MaxGlobs) \ {<<>>},
        fn \in {NameC, NameD},
        bk \in BOOLEAN }

DefaultInit ==
    /\ \E t \in WriteTrees : fs \in {t, Reverse(t)}
    /\ \E kw \in DefaultKeywords :
          /\ obj = HashGenerator_new(Md5, kw)
          /\ args = [directory |-> RootName, hashinfo |-> WriteHashinfo, tick |-> 0,
                     before |-> <<>>, keywords |-> DOMAIN kw]
    /\ pc = "write_hashinfo"
    /\ console = <<>>
    /\ exc = "none"
    /\ ret = [targets |-> <<>>, writes |-> <<>>]

DefaultNext == WriteCall

SpecDefault == DefaultInit /\ [][DefaultNext]_vars

\* C35 as stated: when the generator was constructed without a backup
\* setting, a call of _write_hashinfo that returns has renamed every target
\* that existed before the call to "<target>.bak".
C35_BackupByDefault ==
    (pc = "returned" /\ exc = "none" /\ "backup" \notin args.keywords) =>
        \A p \in PlacementOf(obj, args.before, args.directory) :
            path_exists(args.before, p) =>
                /\ Occurrences(BackedUp, p) >= 1
                /\ path_exists(fs, p \o BakSuffix)

(***************************************************************************)
(* Console: the six level constants and write, which prints the values to  *)
(* the stream when the console's level is positive and the message's level *)
(* is not below it.  debug, info and warning write to stdout, error and    *)
(* fatal to stderr.  A console is constructed with one of the levels, and  *)
(* hashtool() sets the level of the global console to WARNING, INFO,       *)
(* DEBUG or QUIET.  The variable console holds what was printed.           *)
(***************************************************************************)
Console_QUIET == -1
Console_DEBUG == 10
Console_INFO == 20
Console_WARNING == 30
Console_ERROR == 40
Console_FATAL == 50

MaxMessages == 3   \* messages written to one console

Console_write_NoQuiet(self, printed, level, values, stream) ==
    IF level >= self.level
    THEN Append(printed, [stream |-> stream, values |-> values])
    ELSE printed

\* Console.write(level, *values, stream=...): what has been printed after it
Console_write(self, printed, level, values, stream) ==
    IF self.level > 0 /\ level >= self.level
    THEN Append(printed, [stream |-> stream, values |-> values])
    ELSE printed

\* debug, info, warning, error and fatal: the level and the stream they pass
Console_methods ==
    { [level |-> Console_DEBUG, stream |-> "stdout"],
      [level |-> Console_INFO, stream |-> "stdout"],
      [level |-> Console_WARNING, stream |-> "stdout"],
      [level |-> Console_ERROR, stream |-> "stderr"],
      [level |-> Console_FATAL, stream |-> "stderr"] }

ConsoleLevels ==
    {Console_QUIET, Console_DEBUG, Console_INFO, Console_WARNING, Console_ERROR,
     Console_FATAL}

ConsoleValues == {"v", "w"}

\* Console(level)
ConsoleInit ==
    /\ \E level \in ConsoleLevels : obj = [level |-> level]
    /\ console = <<>>
    /\ pc = "constructed"
    /\ args = [level |-> 0, values |-> "", stream |-> "", printed |-> 0, calls |-> 0]
    /\ exc = "none"
    /\ ret = <<>>
    /\ fs = <<>>

\* console.level = ..., as hashtool() assigns it
ConsoleSetLevel ==
    /\ \E level \in {Console_WARNING, Console_INFO, Console_DEBUG, Console_QUIET} :
          obj' = [obj EXCEPT !.level = level]
    /\ pc' = "set"
    /\ UNCHANGED <<fs, console, exc, args, ret>>

\* one of console.debug(v), .info(v), .warning(v), .error(v), .fatal(v)
ConsoleWrite ==
    /\ args.calls < MaxMessages
    /\ \E m \in Console_methods, v \in ConsoleValues :
          /\ console' = Console_write(obj, console, m.level, v, m.stream)
          /\ args' = [level |-> m.level, values |-> v, stream |-> m.stream,
                      printed |-> Len(console), calls |-> args.calls + 1]
    /\ pc' = "written"
    /\ UNCHANGED <<fs, obj, exc, ret>>

ConsoleNext == ConsoleSetLevel \/ ConsoleWrite

SpecConsole == ConsoleInit /\ [][ConsoleNext]_vars

\* the last call printed its values, to its stream, after what was printed
Emitted ==
    /\ Len(console) = args.printed + 1
    /\ console[Len(console)] = [stream |-> args.stream, values |-> args.values]

====
